---- MODULE Spec2Model ----
(***************************************************************************)
(* Job-opportunity refresh pipeline of PrepGenius-AI.                       *)
(*                                                                         *)
(* The store (db) is the jobOpportunity table; a read-path call            *)
(* (getJobOpportunities) is a process that suspends at every await: the    *)
(* auth lookup, each store operation, each model call of the generation    *)
(* gateway (generateWithModelFallback) and each retry of                   *)
(* generateJobOpportunities.  Time is the wall clock in milliseconds; it   *)
(* advances a day at a time, at any point of a call.                       *)
(***************************************************************************)
EXTENDS Integers, Sequences, FiniteSets, TLC

----------------------------------------------------------------------------
(* Bounds of the model *)

MaxDays == 5
MaxCalls == 2
MaxJobs == 2
MaxInvocations == 3

(* The unit of the clock's steps: a day, in ms *)
DayMs == 24 * 60 * 60 * 1000

(* Program constants *)

JobTtlDays == 3
Take == 20
MaxRetries == 3
NumModels == 4
RateLimitDelayMs == 2000
FallbackJobs == 5
(* nextUpdate of an insight row: Date.now() + 7 * 24 * 60 * 60 * 1000 *)
NextUpdateDays == 7

Industries == {"finance", "tech"}
Procs == {1, 2}
PostedDays == {1, 2}

JobTtlMs == JobTtlDays * 24 * 60 * 60 * 1000
NextUpdateMs == NextUpdateDays * 24 * 60 * 60 * 1000

(* The classes of failure of one model call, as the catch blocks see them:  *)
(* a 404, a 429, a 503 and anything else.                                   *)
Failures == {"notFound", "rateLimited", "unavailable", "other"}
Outcomes == {"ok"} \cup Failures

Min(a, b) == IF a < b THEN a ELSE b

RECURSIVE Pow2(_)
Pow2(n) == IF n = 0 THEN 1 ELSE 2 * Pow2(n - 1)

----------------------------------------------------------------------------
VARIABLES
  db,        \* the jobOpportunity table: a sequence of rows, row i has id i
  now,       \* the wall clock, ms
  nCalls,    \* refresh cycles started so far (numbers the cycles)
  callers,   \* the processes that may call the read path
  rp,        \* per process: position and locals of the running operation
  gw,        \* per process: the running generateWithModelFallback invocation
  insights,  \* the industryInsight table: a sequence of rows, in table order
  letters,   \* the coverLetter table: a sequence of rows, row i has id i
  userRows,  \* the user table: a sequence of rows; only checkUser adds to it
  hook       \* the state of one mounted useFetch and its invocations of fn

vars == <<db, now, nCalls, callers, rp, gw, insights, letters, userRows, hook>>

(* A row of the user table, by its clerkUserId *)
UserRow(id) == [clerkUserId |-> id]

(* The user table before any call of checkUser: the rows of the users who   *)
(* have an industry or are yet to choose one.                               *)
UserTable == <<UserRow("u1"), UserRow("u2"), UserRow("u3"), UserRow("u4")>>

(* useState(undefined), useState(null), useState(null); no invocation yet *)
HookInit ==
  [data |-> "undefined", loading |-> "null", error |-> "null", calls |-> <<>>]

----------------------------------------------------------------------------
(* The store *)

(* A create whose row is not active *)
NewRowInactive(id, ind, posted, cyc) ==
  [id |-> id, industry |-> ind, isActive |-> FALSE, createdAt |-> now,
   postedDate |-> posted, cycle |-> cyc]

(* db.jobOpportunity.create: isActive defaults to true, createdAt to the    *)
(* current time.                                                            *)
NewRow(id, ind, posted, cyc) ==
  [id |-> id, industry |-> ind, isActive |-> TRUE, createdAt |-> now,
   postedDate |-> posted, cycle |-> cyc]

(* orderBy postedDate desc; equal postedDate in id order *)
Before(r, q) ==
  \/ r.postedDate > q.postedDate
  \/ r.postedDate = q.postedDate /\ r.id <= q.id

RECURSIVE SortDesc(_)
SortDesc(S) ==
  IF S = {} THEN <<>>
  ELSE LET m == CHOOSE r \in S : \A q \in S : Before(r, q)
       IN <<m>> \o SortDesc(S \ {m})

ActiveRows(d, ind) ==
  {d[i] : i \in {j \in DOMAIN d : d[j].industry = ind /\ d[j].isActive}}

(* A query without the take *)
FindManyActiveUncapped(d, ind) == SortDesc(ActiveRows(d, ind))

(* db.jobOpportunity.findMany({where: {industry, isActive: true},           *)
(*   orderBy: {postedDate: "desc"}, take: 20})                             *)
FindManyActive(d, ind) ==
  LET s == SortDesc(ActiveRows(d, ind))
  IN SubSeq(s, 1, Min(Len(s), Take))

(* An update whose where clause leaves out the industry *)
UpdateManyInactiveEverywhere(d, ind) ==
  [i \in DOMAIN d |-> [d[i] EXCEPT !.isActive = FALSE]]

(* A refresh that deletes the rows it supersedes *)
DeleteManyActive(d, ind) ==
  SelectSeq(d, LAMBDA r : ~(r.industry = ind /\ r.isActive))

(* An update of the first matching row only *)
UpdateFirstInactive(d, ind) ==
  [i \in DOMAIN d |->
     IF /\ d[i].industry = ind /\ d[i].isActive
        /\ \A j \in 1 .. i - 1 : ~(d[j].industry = ind /\ d[j].isActive)
     THEN [d[i] EXCEPT !.isActive = FALSE]
     ELSE d[i]]

(* db.jobOpportunity.updateMany({where: {industry, isActive: true},         *)
(*   data: {isActive: false}})                                             *)
UpdateManyInactive(d, ind) ==
  [i \in DOMAIN d |->
     IF d[i].industry = ind /\ d[i].isActive
     THEN [d[i] EXCEPT !.isActive = FALSE]
     ELSE d[i]]

(* A row of the industryInsight table: its key, when it was last written    *)
(* and whether its figures are generated ones or the default ones.          *)
InsightRow(ind, t, figures) ==
  [industry |-> ind, lastUpdated |-> t, nextUpdate |-> t + NextUpdateMs,
   figures |-> figures]

(* db.industryInsight.findMany({select: {industry: true}}) *)
InsightIndustries(rows) == [i \in DOMAIN rows |-> rows[i].industry]

----------------------------------------------------------------------------
(* Generated text and its parsing *)

JobLists == UNION {[1 .. n -> [postedDate : PostedDays]] : n \in 0 .. MaxJobs}

(* What a model's text holds: possibly wrapped in code fences; its body is  *)
(* not JSON (the parser's message may quote a "503" of the text), or JSON   *)
(* null, or a JSON value without a jobs array, or {jobs: [...]}.            *)
Bodies == {"malformed", "malformed503", "null", "noJobs", "jobs"}

Contents ==
  {[fenced |-> f, body |-> b, jobs |-> <<>>] :
      f \in BOOLEAN, b \in Bodies \ {"jobs"}}
  \cup {[fenced |-> f, body |-> "jobs", jobs |-> js] :
      f \in BOOLEAN, js \in JobLists}

(* text.replace(/```(?:json)?\n?/g, "").trim() *)
StripFences(t) == [t EXCEPT !.fenced = FALSE]

(* JSON.parse: a value, or a SyntaxError whose message quotes the text *)
JsonParse(t) ==
  IF t.fenced \/ t.body \in {"malformed", "malformed503"}
  THEN [ok |-> FALSE, has503 |-> (~t.fenced /\ t.body = "malformed503"),
        data |-> [kind |-> "none", jobs |-> <<>>]]
  ELSE [ok |-> TRUE, has503 |-> FALSE,
        data |-> [kind |-> t.body, jobs |-> t.jobs]]

NoData == [kind |-> "none", jobs |-> <<>>]

----------------------------------------------------------------------------
(* The generation gateway, generateWithModelFallback *)

GwIdle ==
  [variant |-> "none", status |-> "idle", calls |-> <<>>, firstOk |-> 0,
   lastErr |-> "none", slept |-> <<>>, text |-> 0]

GwStarted(variant) == [GwIdle EXCEPT !.variant = variant, !.status = "running"]

(* The repository holds three copies of the gateway, with the same loop and *)
(* the same list of models; they differ in the catch block.                 *)
Variants == {"dashboard", "inngest", "coverLetter"}

(* The wait of the catch block, ms.  The gateway of the dashboard actions   *)
(* (job refresh, insights) and that of the scheduled functions tell a 404   *)
(* from the rest and wait for neither.                                      *)
DashboardCatchDelay(err) == 0

InngestCatchDelay(err) == 0

(* improveWithAI holds a loop of its own over the same list of models; its  *)
(* catch block tells a 404 from the rest and waits for neither.             *)
ResumeCatchDelay(err) == 0

(* The gateway of the cover letters waits 2000 ms after a 429. *)
CoverLetterCatchDelay(err) ==
  IF err = "rateLimited" THEN RateLimitDelayMs ELSE 0

GwCatchDelay(variant, err) ==
  CASE variant = "dashboard" -> DashboardCatchDelay(err)
    [] variant = "inngest" -> InngestCatchDelay(err)
    [] variant = "coverLetter" -> CoverLetterCatchDelay(err)
    [] variant = "resume" -> ResumeCatchDelay(err)

(* A gateway that retries the candidate that was rate limited *)
GwNextModelRetrying(g) ==
  IF g.lastErr = "rateLimited" THEN Len(g.calls) ELSE Len(g.calls) + 1

(* The model the loop invokes next: the one after those invoked so far *)
GwNextModel(g) == Len(g.calls) + 1

(* A gateway that keeps the text of a success and goes on to the next model *)
GwAfterCallNoReturn(g, outcome) ==
  LET m == GwNextModel(g)
      called == [g EXCEPT !.calls = Append(@, m)]
  IN IF outcome = "ok"
     THEN [called EXCEPT !.status = IF m < NumModels THEN "running" ELSE "returned",
                         !.firstOk = IF g.firstOk = 0 THEN m ELSE g.firstOk,
                         !.text = m]
     ELSE [called EXCEPT !.lastErr = outcome,
                         !.status = IF m < NumModels THEN "running"
                                    ELSE IF g.firstOk = 0 THEN "failed" ELSE "returned"]

(* One iteration of `for (const modelName of modelsToTry)`: the model is    *)
(* invoked; on success its text is returned at once; on failure the catch   *)
(* block runs and the loop goes on, or throws after the last model.         *)
GwAfterCall(g, outcome) ==
  LET m == GwNextModel(g)
      called == [g EXCEPT !.calls = Append(@, m)]
  IN IF outcome = "ok"
     THEN [called EXCEPT !.status = "returned", !.firstOk = m, !.text = m]
     ELSE LET delay == GwCatchDelay(g.variant, outcome)
              caught == [called EXCEPT
                           !.lastErr = outcome,
                           !.slept = IF delay > 0 THEN Append(@, delay) ELSE @]
          IN IF m < NumModels
             THEN caught
             ELSE [caught EXCEPT !.status = "failed"]

GwModelCall(p, outcome) ==
  /\ gw[p].status = "running"
  /\ gw' = [gw EXCEPT ![p] = GwAfterCall(gw[p], outcome)]
  /\ UNCHANGED <<db, now, nCalls, callers, rp, insights, letters, userRows, hook>>

----------------------------------------------------------------------------
(* The read path, getJobOpportunities *)

RpIdle ==
  [pc |-> "idle", op |-> "none", user |-> "none", industry |-> "none",
   current |-> "none",
   existingJobs |-> <<>>,
   industries |-> <<>>, indIdx |-> 0, cycleBase |-> 0, results |-> <<>>,
   status |-> 0,
   shouldFetchNew |-> FALSE, attempt |-> 0, lastError |-> "none",
   last503 |-> FALSE,
   genSlept |-> <<>>, gwCalled |-> FALSE,
   genOutcome |-> "none",
   jobData |-> NoData, jobIdx |-> 0, created |-> 0,
   cycle |-> 0, dbAtStart |-> <<>>, fetchedAt |-> 0, deactivated |-> FALSE,
   result |-> [kind |-> "none", rows |-> <<>>, error |-> "none"]]

Returned(rows) == [kind |-> "return", rows |-> rows, error |-> "none"]
Raised(e) == [kind |-> "raise", rows |-> <<>>, error |-> e]

(* A read path that checks the user after it has deactivated *)
RpCallCheckingLate(p, ind, authed) ==
  /\ p \in callers
  /\ rp[p].pc = "idle"
  /\ nCalls < MaxCalls
  /\ nCalls' = nCalls + 1
  /\ db' = IF authed THEN db ELSE UpdateManyInactive(db, ind)
  /\ rp' = [rp EXCEPT ![p] =
       IF authed
       THEN [RpIdle EXCEPT !.pc = "fetch", !.op = "read", !.industry = ind,
                           !.cycle = nCalls + 1, !.dbAtStart = db]
       ELSE [RpIdle EXCEPT !.pc = "done", !.op = "read", !.industry = ind,
                           !.cycle = nCalls + 1, !.dbAtStart = db,
                           !.result = Raised("Unauthorized")]]
  /\ UNCHANGED <<now, callers, gw, insights, letters, userRows, hook>>

(* const { userId } = await auth(); if (!userId) throw new Error("Unauthorized") *)
RpCall(p, ind, authed) ==
  /\ p \in callers
  /\ rp[p].pc = "idle"
  /\ nCalls < MaxCalls
  /\ nCalls' = nCalls + 1
  /\ rp' = [rp EXCEPT ![p] =
       IF authed
       THEN [RpIdle EXCEPT !.pc = "fetch", !.op = "read", !.industry = ind,
                           !.cycle = nCalls + 1, !.dbAtStart = db]
       ELSE [RpIdle EXCEPT !.pc = "done", !.op = "read", !.industry = ind,
                           !.cycle = nCalls + 1, !.dbAtStart = db,
                           !.result = Raised("Unauthorized")]]
  /\ UNCHANGED <<db, now, callers, gw, insights, letters, userRows, hook>>

(* A staleness test that refreshes at the TTL, not after it *)
ShouldFetchNewAtTtl(existing, t) ==
  \/ Len(existing) = 0
  \/ t - existing[1].createdAt >= JobTtlMs

(* A staleness test whose TTL is in seconds *)
ShouldFetchNewInSeconds(existing, t) ==
  \/ Len(existing) = 0
  \/ t - existing[1].createdAt > JobTtlDays * 24 * 60 * 60

(* existingJobs.length === 0 || now - existingJobs[0].createdAt > 3 days *)
ShouldFetchNew(existing, t) ==
  \/ Len(existing) = 0
  \/ t - existing[1].createdAt > JobTtlMs

(* The call of q is past the staleness gate, refreshing the industry *)
Refreshing(q, ind) ==
  /\ rp[q].op = "read"
  /\ rp[q].industry = ind
  /\ rp[q].shouldFetchNew
  /\ rp[q].pc \in {"generate", "gateway", "fallback", "deactivate", "create",
                   "refetch"}

(* A read path that waits while another call refreshes the industry *)
RpFetchExistingExclusive(p) ==
  /\ rp[p].pc = "fetch"
  /\ \A q \in Procs \ {p} : ~Refreshing(q, rp[p].industry)
  /\ LET existing == FindManyActive(db, rp[p].industry)
     IN rp' = [rp EXCEPT ![p] =
          IF ShouldFetchNew(existing, now)
          THEN [@ EXCEPT !.pc = "generate", !.existingJobs = existing,
                         !.fetchedAt = now, !.shouldFetchNew = TRUE,
                         !.attempt = 1]
          ELSE [@ EXCEPT !.pc = "done", !.existingJobs = existing,
                         !.fetchedAt = now, !.result = Returned(existing)]]
  /\ UNCHANGED <<db, now, nCalls, callers, gw, insights, letters, userRows, hook>>

(* The query of step 1 and the staleness gate; nothing makes the call wait  *)
(* for another call.                                                        *)
RpFetchExisting(p) ==
  /\ rp[p].pc = "fetch"
  /\ LET existing == FindManyActive(db, rp[p].industry)
     IN rp' = [rp EXCEPT ![p] =
          IF ShouldFetchNew(existing, now)
          THEN [@ EXCEPT !.pc = "generate", !.existingJobs = existing,
                         !.fetchedAt = now, !.shouldFetchNew = TRUE,
                         !.attempt = 1]
          ELSE [@ EXCEPT !.pc = "done", !.existingJobs = existing,
                         !.fetchedAt = now, !.result = Returned(existing)]]
  /\ UNCHANGED <<db, now, nCalls, callers, gw, insights, letters, userRows, hook>>

(* generateJobOpportunities: one attempt of the retry loop starts the        *)
(* gateway, `await generateWithModelFallback(prompt)`                       *)
GenAttempt(p) ==
  /\ rp[p].pc = "generate"
  /\ rp' = [rp EXCEPT ![p] = [@ EXCEPT !.pc = "gateway", !.gwCalled = TRUE]]
  /\ gw' = [gw EXCEPT ![p] = GwStarted("dashboard")]
  /\ UNCHANGED <<db, now, nCalls, callers, insights, letters, userRows, hook>>

(* The delay of the retry loop after failed attempt k: Math.pow(2, k) * 1000 *)
RetryDelayMs(attempt) == Pow2(attempt) * 1000

(* A retry loop that does not count its attempts *)
GenCatchUnbounded(r, errorName, has503) ==
  IF has503
  THEN [r EXCEPT !.pc = "generate", !.lastError = errorName,
                 !.genSlept = Append(@, RetryDelayMs(r.attempt)),
                 !.attempt = @ + 1]
  ELSE [r EXCEPT !.pc = "fallback", !.lastError = errorName,
                 !.last503 = has503]

(* A catch block that rethrows to the caller once the loop is exhausted *)
GenCatchRethrowing(r, errorName, has503) ==
  IF has503 /\ r.attempt < MaxRetries
  THEN [r EXCEPT !.pc = "generate", !.lastError = errorName,
                 !.genSlept = Append(@, RetryDelayMs(r.attempt)),
                 !.attempt = @ + 1]
  ELSE [r EXCEPT !.pc = "done", !.result = Raised(errorName),
                 !.last503 = has503]

(* The catch block of the retry loop: an error whose message holds "503" is *)
(* retried after a delay while attempts remain; any other error, or the     *)
(* last attempt, leaves the loop for the fallback data (no model is called  *)
(* from then on).                                                           *)
GenCatch(r, errorName, has503) ==
  IF has503 /\ r.attempt < MaxRetries
  THEN [r EXCEPT !.pc = "generate", !.lastError = errorName,
                 !.genSlept = Append(@, RetryDelayMs(r.attempt)),
                 !.attempt = @ + 1]
  ELSE [r EXCEPT !.pc = "fallback", !.lastError = errorName,
                 !.last503 = has503]

(* generateJobOpportunities returns: its locals are gone; how it ended is   *)
(* kept for the record.                                                     *)
GenReturn(r, data, outcome) ==
  [r EXCEPT !.pc = IF r.op = "manual" THEN "mAfterGen" ELSE "deactivate",
            !.jobData = data, !.genOutcome = outcome,
            !.attempt = 0, !.lastError = "none", !.last503 = FALSE,
            !.genSlept = <<>>]

(* The gateway returned a text: strip the fences, JSON.parse, return the    *)
(* parsed value to the caller, or catch the SyntaxError.                    *)
GenParsed(r, content) ==
  LET parsed == JsonParse(StripFences(content))
  IN IF parsed.ok
     THEN GenReturn(r, parsed.data, "parsed")
     ELSE GenCatch(r, "SyntaxError", parsed.has503)

(* What the returned text holds is drawn here, where it is first read. *)
GenParse(p, content) ==
  /\ rp[p].pc = "gateway"
  /\ gw[p].status = "returned"
  /\ rp' = [rp EXCEPT ![p] =
              GenParsed(@, content)]
  /\ gw' = [gw EXCEPT ![p] = GwIdle]
  /\ UNCHANGED <<db, now, nCalls, callers, insights, letters, userRows, hook>>

(* The gateway threw new Error("All Gemini models failed"): its message     *)
(* holds no "503", whatever the failures of the models were.                *)
GenGatewayFailed(p) ==
  /\ rp[p].pc = "gateway"
  /\ gw[p].status = "failed"
  /\ rp' = [rp EXCEPT ![p] =
              GenCatch(@, "AllModelsFailed", FALSE)]
  /\ gw' = [gw EXCEPT ![p] = GwIdle]
  /\ UNCHANGED <<db, now, nCalls, callers, insights, letters, userRows, hook>>

(* getRealJobOpportunities: the jobs of the public feed (1 to 5 of them),   *)
(* else the 5 keyword-templated jobs; all posted on the current date.  The  *)
(* model draws the length of the list up to MaxJobs.                        *)
FallbackLens == 1 .. Min(FallbackJobs, MaxJobs)

FallbackData(n, t) ==
  [kind |-> "jobs", jobs |-> [i \in 1 .. n |-> [postedDate |-> t \div DayMs]]]

(* How the retry loop was left: the gateway threw on the first attempt      *)
(* (every model failed on every attempt), or after a retry, or the text of  *)
(* the last attempt did not parse.                                          *)
FallbackReason(r) ==
  CASE r.lastError = "SyntaxError" -> "malformed"
    [] r.lastError = "AllModelsFailed" /\ r.attempt = 1 -> "allModelsFailed"
    [] OTHER -> "failedAfterRetry"

GenFallback(p, n) ==
  /\ rp[p].pc = "fallback"
  /\ rp' = [rp EXCEPT ![p] =
              GenReturn(@, FallbackData(n, now), FallbackReason(@))]
  /\ UNCHANGED <<db, now, nCalls, callers, gw, insights, letters, userRows, hook>>

(* After updateMany: `jobData.jobs && Array.isArray(jobData.jobs)` throws a *)
(* TypeError on null, which the outer catch turns into the set of step 1;   *)
(* without a jobs array the loop is skipped.                                *)
AfterDeactivate(r) ==
  CASE r.jobData.kind = "null" ->
         [r EXCEPT !.pc = "done", !.deactivated = TRUE,
                   !.result = Returned(r.existingJobs)]
    [] r.jobData.kind = "jobs" /\ Len(r.jobData.jobs) > 0 ->
         [r EXCEPT !.pc = "create", !.deactivated = TRUE, !.jobIdx = 1]
    [] OTHER ->
         [r EXCEPT !.pc = "refetch", !.deactivated = TRUE]

RpDeactivate(p) ==
  /\ rp[p].pc = "deactivate"
  /\ db' = UpdateManyInactive(db, rp[p].industry)
  /\ rp' = [rp EXCEPT ![p] = AfterDeactivate(@)]
  /\ UNCHANGED <<now, nCalls, callers, gw, insights, letters, userRows, hook>>

(* A loop that a failed create leaves for the catch of the call *)
AfterCreateAborting(r, ok) ==
  IF ok
  THEN [r EXCEPT !.created = @ + 1,
                 !.jobIdx = @ + 1,
                 !.pc = IF r.jobIdx < Len(r.jobData.jobs) THEN "create" ELSE "refetch"]
  ELSE [r EXCEPT !.pc = "done", !.result = Returned(r.existingJobs)]

(* One iteration of `for (const job of jobData.jobs)`: the create succeeds, *)
(* or fails and is caught and logged; the loop goes on either way.          *)
AfterCreate(r, ok) ==
  [r EXCEPT !.created = IF ok THEN @ + 1 ELSE @,
            !.jobIdx = @ + 1,
            !.pc = IF r.jobIdx < Len(r.jobData.jobs) THEN "create" ELSE "refetch"]

RpCreate(p, ok) ==
  /\ rp[p].pc = "create"
  /\ db' = IF ok
           THEN Append(db, NewRow(Len(db) + 1, rp[p].industry,
                                  rp[p].jobData.jobs[rp[p].jobIdx].postedDate,
                                  rp[p].cycle))
           ELSE db
  /\ rp' = [rp EXCEPT ![p] = AfterCreate(@, ok)]
  /\ UNCHANGED <<now, nCalls, callers, gw, insights, letters, userRows, hook>>

(* return await db.jobOpportunity.findMany(...) *)
RpRefetch(p) ==
  /\ rp[p].pc = "refetch"
  /\ rp' = [rp EXCEPT ![p] = [@ EXCEPT !.pc = "done",
               !.result = Returned(FindManyActive(db, rp[p].industry))]]
  /\ UNCHANGED <<db, now, nCalls, callers, gw, insights, letters, userRows, hook>>

(* The caller has the result; the process may call again. *)
RpFinish(p) ==
  /\ rp[p].pc = "done"
  /\ rp' = [rp EXCEPT ![p] = RpIdle]
  /\ UNCHANGED <<db, now, nCalls, callers, gw, insights, letters, userRows, hook>>

----------------------------------------------------------------------------
(* The manual update, POST /api/manual-update, and the daily tick,          *)
(* fetchJobOpportunities: one refresh cycle per industry of the             *)
(* industryInsight table, in table order.                                   *)

(* The locals of one iteration of the loop over the industries *)
CycleStart(r, d) ==
  [r EXCEPT !.industry = r.industries[r.indIdx],
            !.cycle = r.cycleBase + r.indIdx,
            !.dbAtStart = d, !.deactivated = FALSE,
            !.jobData = NoData, !.jobIdx = 0, !.created = 0,
            !.genOutcome = "none", !.gwCalled = FALSE]

Success(ind, n) ==
  [industry |-> ind, status |-> "success", jobsCreated |-> n, error |-> "none"]
Failure(ind, e) ==
  [industry |-> ind, status |-> "error", jobsCreated |-> -1, error |-> e]

(* A manual update that answers an empty report when no industry is known *)
MuCallEmptyReport(p) ==
  /\ p \in callers
  /\ rp[p].pc = "idle"
  /\ nCalls + Len(insights) <= MaxCalls
  /\ nCalls' = nCalls + Len(insights)
  /\ rp' = [rp EXCEPT ![p] =
       IF Len(insights) = 0
       THEN [RpIdle EXCEPT !.pc = "done", !.op = "manual", !.status = 200]
       ELSE [RpIdle EXCEPT !.pc = "mDeactivate", !.op = "manual",
                           !.industries = InsightIndustries(insights), !.indIdx = 1,
                           !.cycleBase = nCalls]]
  /\ UNCHANGED <<db, now, callers, gw, insights, letters, userRows, hook>>

(* const industries = await db.industryInsight.findMany(...); without any,  *)
(* the response is a 400.                                                   *)
MuCall(p) ==
  /\ p \in callers
  /\ rp[p].pc = "idle"
  /\ nCalls + Len(insights) <= MaxCalls
  /\ nCalls' = nCalls + Len(insights)
  /\ rp' = [rp EXCEPT ![p] =
       IF Len(insights) = 0
       THEN [RpIdle EXCEPT !.pc = "done", !.op = "manual", !.status = 400]
       ELSE [RpIdle EXCEPT !.pc = "mDeactivate", !.op = "manual",
                           !.industries = InsightIndustries(insights), !.indIdx = 1,
                           !.cycleBase = nCalls]]
  /\ UNCHANGED <<db, now, callers, gw, insights, letters, userRows, hook>>

(* The iteration opens with the updateMany, then awaits                     *)
(* generateJobOpportunities(industry).                                      *)
MuDeactivate(p) ==
  /\ rp[p].pc = "mDeactivate"
  /\ db' = UpdateManyInactive(db, rp[p].industries[rp[p].indIdx])
  /\ rp' = [rp EXCEPT ![p] = [CycleStart(@, db) EXCEPT
               !.pc = "generate", !.deactivated = TRUE, !.attempt = 1]]
  /\ UNCHANGED <<now, nCalls, callers, gw, insights, letters, userRows, hook>>

(* `if (jobData.jobs && Array.isArray(jobData.jobs))`: a TypeError on null  *)
(* goes to the catch of the iteration; without a jobs array nothing is      *)
(* created and nothing is reported.                                         *)
MuAfterGenerated(r) ==
  CASE r.jobData.kind = "null" ->
         [r EXCEPT !.pc = "mNext",
                   !.results = Append(@, Failure(r.industry, "TypeError"))]
    [] r.jobData.kind = "jobs" /\ Len(r.jobData.jobs) > 0 ->
         [r EXCEPT !.pc = "mCreate", !.jobIdx = 1]
    [] r.jobData.kind = "jobs" /\ Len(r.jobData.jobs) = 0 ->
         [r EXCEPT !.pc = "mNext",
                   !.results = Append(@, Success(r.industry, 0))]
    [] OTHER -> [r EXCEPT !.pc = "mNext"]

MuAfterGenerate(p) ==
  /\ rp[p].pc = "mAfterGen"
  /\ rp' = [rp EXCEPT ![p] = MuAfterGenerated(@)]
  /\ UNCHANGED <<db, now, nCalls, callers, gw, insights, letters, userRows, hook>>

(* A loop over the industries that a failed create ends *)
MuAfterCreateStopping(r, ok) ==
  IF ~ok
  THEN [r EXCEPT !.pc = "done", !.status = 200,
                 !.results = Append(@, Failure(r.industry, "PersistenceError"))]
  ELSE IF r.jobIdx < Len(r.jobData.jobs)
  THEN [r EXCEPT !.created = @ + 1, !.jobIdx = @ + 1]
  ELSE [r EXCEPT !.created = @ + 1, !.pc = "mNext",
                 !.results = Append(@, Success(r.industry, Len(r.jobData.jobs)))]

(* One create of the loop; it is not caught on its own: a failure ends the  *)
(* iteration with an error entry, the last success with a success entry     *)
(* that counts jobData.jobs.length.                                         *)
MuAfterCreate(r, ok) ==
  IF ~ok
  THEN [r EXCEPT !.pc = "mNext",
                 !.results = Append(@, Failure(r.industry, "PersistenceError"))]
  ELSE IF r.jobIdx < Len(r.jobData.jobs)
  THEN [r EXCEPT !.created = @ + 1, !.jobIdx = @ + 1]
  ELSE [r EXCEPT !.created = @ + 1, !.pc = "mNext",
                 !.results = Append(@, Success(r.industry, Len(r.jobData.jobs)))]

MuCreate(p, ok) ==
  /\ rp[p].pc = "mCreate"
  /\ db' = IF ok
           THEN Append(db, NewRow(Len(db) + 1, rp[p].industry,
                                  rp[p].jobData.jobs[rp[p].jobIdx].postedDate,
                                  rp[p].cycle))
           ELSE db
  /\ rp' = [rp EXCEPT ![p] = MuAfterCreate(@, ok)]
  /\ UNCHANGED <<now, nCalls, callers, gw, insights, letters, userRows, hook>>

(* The next industry, or the response with the report *)
MuNext(p) ==
  /\ rp[p].pc = "mNext"
  /\ rp' = [rp EXCEPT ![p] =
       IF rp[p].indIdx < Len(rp[p].industries)
       THEN [@ EXCEPT !.pc = "mDeactivate", !.indIdx = @ + 1]
       ELSE [@ EXCEPT !.pc = "done", !.status = 200]]
  /\ UNCHANGED <<db, now, nCalls, callers, gw, insights, letters, userRows, hook>>

(* The daily tick: step.run("Fetch industries") *)
TkCall(p) ==
  /\ p \in callers
  /\ rp[p].pc = "idle"
  /\ nCalls + Len(insights) <= MaxCalls
  /\ nCalls' = nCalls + Len(insights)
  /\ rp' = [rp EXCEPT ![p] =
       IF Len(insights) = 0
       THEN [RpIdle EXCEPT !.pc = "done", !.op = "tick"]
       ELSE [RpIdle EXCEPT !.pc = "tGenerate", !.op = "tick",
                           !.industries = InsightIndustries(insights), !.indIdx = 1,
                           !.cycleBase = nCalls]]
  /\ UNCHANGED <<db, now, callers, gw, insights, letters, userRows, hook>>

(* step.run(`Generate insights for ${industry}`): the gateway of the        *)
(* scheduled functions, invoked once, outside the try.                      *)
TkGenerate(p) ==
  /\ rp[p].pc = "tGenerate"
  /\ rp' = [rp EXCEPT ![p] = [CycleStart(@, db) EXCEPT
               !.pc = "tGateway", !.gwCalled = TRUE]]
  /\ gw' = [gw EXCEPT ![p] = GwStarted("inngest")]
  /\ UNCHANGED <<db, now, nCalls, callers, insights, letters, userRows, hook>>

(* A tick that logs the failure of the gateway and goes on *)
TkGatewayFailedSkipping(p) ==
  /\ rp[p].pc = "tGateway"
  /\ gw[p].status = "failed"
  /\ rp' = [rp EXCEPT ![p] = [@ EXCEPT !.pc = "tNext",
               !.genOutcome = "allModelsFailed"]]
  /\ gw' = [gw EXCEPT ![p] = GwIdle]
  /\ UNCHANGED <<db, now, nCalls, callers, insights, letters, userRows, hook>>

(* The gateway threw: nothing catches it, the run ends with the error *)
TkGatewayFailed(p) ==
  /\ rp[p].pc = "tGateway"
  /\ gw[p].status = "failed"
  /\ rp' = [rp EXCEPT ![p] = [@ EXCEPT !.pc = "done",
               !.genOutcome = "allModelsFailed",
               !.result = Raised("AllModelsFailed")]]
  /\ gw' = [gw EXCEPT ![p] = GwIdle]
  /\ UNCHANGED <<db, now, nCalls, callers, insights, letters, userRows, hook>>

(* Strip the fences and JSON.parse inside the try: a SyntaxError is logged  *)
(* and the loop goes on with the next industry.                             *)
TkParsed(r, content) ==
  LET parsed == JsonParse(StripFences(content))
  IN IF parsed.ok
     THEN [r EXCEPT !.pc = "tDeactivate", !.jobData = parsed.data,
                    !.genOutcome = "parsed"]
     ELSE [r EXCEPT !.pc = "tNext", !.genOutcome = "malformed"]

TkParse(p, content) ==
  /\ rp[p].pc = "tGateway"
  /\ gw[p].status = "returned"
  /\ rp' = [rp EXCEPT ![p] = TkParsed(@, content)]
  /\ gw' = [gw EXCEPT ![p] = GwIdle]
  /\ UNCHANGED <<db, now, nCalls, callers, insights, letters, userRows, hook>>

(* After the updateMany step: a TypeError on null is caught and logged;     *)
(* without a jobs array no step creates anything.                           *)
TkAfterDeactivate(r) ==
  IF r.jobData.kind = "jobs" /\ Len(r.jobData.jobs) > 0
  THEN [r EXCEPT !.pc = "tCreate", !.deactivated = TRUE, !.jobIdx = 1]
  ELSE [r EXCEPT !.pc = "tNext", !.deactivated = TRUE]

TkDeactivate(p) ==
  /\ rp[p].pc = "tDeactivate"
  /\ db' = UpdateManyInactive(db, rp[p].industry)
  /\ rp' = [rp EXCEPT ![p] = TkAfterDeactivate(@)]
  /\ UNCHANGED <<now, nCalls, callers, gw, insights, letters, userRows, hook>>

(* One create of the step that creates the jobs; a failure throws out of    *)
(* the step into the catch of the iteration, which logs it.                 *)
TkAfterCreate(r, ok) ==
  IF ok /\ r.jobIdx < Len(r.jobData.jobs)
  THEN [r EXCEPT !.created = @ + 1, !.jobIdx = @ + 1]
  ELSE [r EXCEPT !.created = IF ok THEN @ + 1 ELSE @, !.pc = "tNext"]

TkCreate(p, ok) ==
  /\ rp[p].pc = "tCreate"
  /\ db' = IF ok
           THEN Append(db, NewRow(Len(db) + 1, rp[p].industry,
                                  rp[p].jobData.jobs[rp[p].jobIdx].postedDate,
                                  rp[p].cycle))
           ELSE db
  /\ rp' = [rp EXCEPT ![p] = TkAfterCreate(@, ok)]
  /\ UNCHANGED <<now, nCalls, callers, gw, insights, letters, userRows, hook>>

TkNext(p) ==
  /\ rp[p].pc = "tNext"
  /\ rp' = [rp EXCEPT ![p] =
       IF rp[p].indIdx < Len(rp[p].industries)
       THEN [@ EXCEPT !.pc = "tGenerate", !.indIdx = @ + 1]
       ELSE [@ EXCEPT !.pc = "done"]]
  /\ UNCHANGED <<db, now, nCalls, callers, gw, insights, letters, userRows, hook>>

----------------------------------------------------------------------------
(* The industry insights: getIndustryInsights on first request, and the     *)
(* weekly tick, generateIndustryInsights.                                   *)

(* The user table: the industry of each user, "none" before onboarding.     *)
UserIndustry ==
  [u1 |-> "finance", u2 |-> "finance", u3 |-> "tech", u4 |-> "none"]

Users == DOMAIN UserIndustry

(* The identities a session can carry: those of the users, and one that has *)
(* no row in the user table.                                                *)
ClerkIds == Users \cup {"ghost"}

HasInsight(rows, ind) == \E i \in DOMAIN rows : rows[i].industry = ind

InsightOf(rows, ind) ==
  rows[CHOOSE i \in DOMAIN rows : rows[i].industry = ind]

(* industry is the key of the table and is required: a create for an        *)
(* industry that has a row, or without an industry, is rejected.            *)
InsightKeyRejects(rows, ind) == ind = "none" \/ HasInsight(rows, ind)

(* const { userId } = await auth(); if (!userId) throw new Error("Unauthorized") *)
GiCall(p, u, authed) ==
  /\ p \in callers
  /\ rp[p].pc = "idle"
  /\ nCalls < MaxCalls
  /\ nCalls' = nCalls + 1
  /\ rp' = [rp EXCEPT ![p] =
       IF authed
       THEN [RpIdle EXCEPT !.pc = "iLookup", !.op = "insights", !.user = u]
       ELSE [RpIdle EXCEPT !.pc = "done", !.op = "insights",
                           !.result = Raised("Unauthorized")]]
  /\ UNCHANGED <<db, now, callers, gw, insights, letters, userRows, hook>>

(* A lookup that generates whether or not the user has insights *)
GiAfterLookupAlwaysGenerating(r, rows) ==
  IF r.user \notin Users
  THEN [r EXCEPT !.pc = "done", !.result = Raised("UserNotFound")]
  ELSE [r EXCEPT !.pc = "iGenerate", !.industry = UserIndustry[r.user],
                 !.shouldFetchNew = TRUE]

(* db.user.findUnique({include: {industryInsight: true}}): no user throws;  *)
(* a user with insights gets them back; one without goes on to generate.    *)
GiAfterLookup(r, rows) ==
  IF r.user \notin Users
  THEN [r EXCEPT !.pc = "done", !.result = Raised("UserNotFound")]
  ELSE LET ind == UserIndustry[r.user]
       IN IF HasInsight(rows, ind)
          THEN [r EXCEPT !.pc = "done", !.industry = ind,
                         !.result = Returned(<<InsightOf(rows, ind)>>)]
          ELSE [r EXCEPT !.pc = "iGenerate", !.industry = ind,
                         !.shouldFetchNew = TRUE]

GiLookup(p) ==
  /\ rp[p].pc = "iLookup"
  /\ rp' = [rp EXCEPT ![p] = GiAfterLookup(@, insights)]
  /\ UNCHANGED <<db, now, nCalls, callers, gw, insights, letters, userRows, hook>>

(* generateAIInsights: one invocation of the gateway inside a try *)
GiGenerate(p) ==
  /\ rp[p].pc = "iGenerate"
  /\ rp' = [rp EXCEPT ![p] = [@ EXCEPT !.pc = "iGateway", !.gwCalled = TRUE]]
  /\ gw' = [gw EXCEPT ![p] = GwStarted("dashboard")]
  /\ UNCHANGED <<db, now, nCalls, callers, insights, letters, userRows, hook>>

(* The parsed value is returned, whatever it holds; a SyntaxError is caught *)
(* and the default figures are returned.                                    *)
GiParsed(r, content) ==
  LET parsed == JsonParse(StripFences(content))
  IN IF parsed.ok
     THEN [r EXCEPT !.pc = "iCreate", !.genOutcome = "parsed"]
     ELSE [r EXCEPT !.pc = "iCreate", !.genOutcome = "default"]

GiParse(p, content) ==
  /\ rp[p].pc = "iGateway"
  /\ gw[p].status = "returned"
  /\ rp' = [rp EXCEPT ![p] = GiParsed(@, content)]
  /\ gw' = [gw EXCEPT ![p] = GwIdle]
  /\ UNCHANGED <<db, now, nCalls, callers, insights, letters, userRows, hook>>

(* The gateway threw: the catch returns the default figures *)
GiGatewayFailed(p) ==
  /\ rp[p].pc = "iGateway"
  /\ gw[p].status = "failed"
  /\ rp' = [rp EXCEPT ![p] = [@ EXCEPT !.pc = "iCreate", !.genOutcome = "default"]]
  /\ gw' = [gw EXCEPT ![p] = GwIdle]
  /\ UNCHANGED <<db, now, nCalls, callers, insights, letters, userRows, hook>>

(* db.industryInsight.create({data: {industry: user.industry, ...insights,  *)
(* nextUpdate}}): the new row is returned; a create the store rejects (the  *)
(* key, or the figures) throws to the caller.                               *)
GiCreate(p, ok) ==
  /\ rp[p].pc = "iCreate"
  /\ LET row == InsightRow(rp[p].industry, now,
                           IF rp[p].genOutcome = "parsed" THEN "generated"
                           ELSE "default")
         created == ok /\ ~InsightKeyRejects(insights, rp[p].industry)
     IN /\ insights' = IF created THEN Append(insights, row) ELSE insights
        /\ rp' = [rp EXCEPT ![p] =
              IF created
              THEN [@ EXCEPT !.pc = "done", !.created = 1,
                             !.result = Returned(<<row>>)]
              ELSE [@ EXCEPT !.pc = "done",
                             !.result = Raised("PersistenceError")]]
  /\ UNCHANGED <<db, now, nCalls, callers, gw, letters, userRows, hook>>

(* The weekly tick: step.run("Fetch industries") *)
WkCall(p) ==
  /\ p \in callers
  /\ rp[p].pc = "idle"
  /\ nCalls < MaxCalls
  /\ nCalls' = nCalls + 1
  /\ rp' = [rp EXCEPT ![p] =
       IF Len(insights) = 0
       THEN [RpIdle EXCEPT !.pc = "done", !.op = "weekly"]
       ELSE [RpIdle EXCEPT !.pc = "wGenerate", !.op = "weekly",
                           !.industries = InsightIndustries(insights),
                           !.indIdx = 1]]
  /\ UNCHANGED <<db, now, callers, gw, insights, letters, userRows, hook>>

(* step.run(`Generate insights for ${industry}`), outside the try *)
WkGenerate(p) ==
  /\ rp[p].pc = "wGenerate"
  /\ rp' = [rp EXCEPT ![p] = [@ EXCEPT !.pc = "wGateway", !.gwCalled = TRUE,
               !.industry = rp[p].industries[rp[p].indIdx],
               !.genOutcome = "none"]]
  /\ gw' = [gw EXCEPT ![p] = GwStarted("inngest")]
  /\ UNCHANGED <<db, now, nCalls, callers, insights, letters, userRows, hook>>

(* The gateway threw: nothing catches it, the run ends with the error *)
WkGatewayFailed(p) ==
  /\ rp[p].pc = "wGateway"
  /\ gw[p].status = "failed"
  /\ rp' = [rp EXCEPT ![p] = [@ EXCEPT !.pc = "done",
               !.genOutcome = "allModelsFailed",
               !.result = Raised("AllModelsFailed")]]
  /\ gw' = [gw EXCEPT ![p] = GwIdle]
  /\ UNCHANGED <<db, now, nCalls, callers, insights, letters, userRows, hook>>

(* A tick that a text that does not parse ends *)
WkParsedStopping(r, content) ==
  LET parsed == JsonParse(StripFences(content))
  IN IF parsed.ok /\ parsed.data.kind = "jobs"
     THEN [r EXCEPT !.pc = "wUpdate", !.genOutcome = "parsed"]
     ELSE [r EXCEPT !.pc = "done", !.genOutcome = "malformed"]

(* JSON.parse inside the try.  The update step reads insights.salaryRanges  *)
(* and parses its JSON copy: on null, and on a value without the figures,   *)
(* that throws before the update; all of it is caught and logged.           *)
WkParsed(r, content) ==
  LET parsed == JsonParse(StripFences(content))
  IN IF parsed.ok /\ parsed.data.kind = "jobs"
     THEN [r EXCEPT !.pc = "wUpdate", !.genOutcome = "parsed"]
     ELSE [r EXCEPT !.pc = "wNext", !.genOutcome = "malformed"]

WkParse(p, content) ==
  /\ rp[p].pc = "wGateway"
  /\ gw[p].status = "returned"
  /\ rp' = [rp EXCEPT ![p] = WkParsed(@, content)]
  /\ gw' = [gw EXCEPT ![p] = GwIdle]
  /\ UNCHANGED <<db, now, nCalls, callers, insights, letters, userRows, hook>>

(* An update that adds a row *)
UpdateInsightAppending(rows, ind, t) ==
  Append(rows, InsightRow(ind, t, "generated"))

(* db.industryInsight.update({where: {industry}, data: {...insights,        *)
(* lastUpdated: new Date(), nextUpdate}})                                   *)
UpdateInsight(rows, ind, t) ==
  [i \in DOMAIN rows |->
     IF rows[i].industry = ind THEN InsightRow(ind, t, "generated")
     ELSE rows[i]]

(* The update succeeds, or throws into the catch of the iteration *)
WkUpdate(p, ok) ==
  /\ rp[p].pc = "wUpdate"
  /\ insights' = IF ok /\ HasInsight(insights, rp[p].industry)
                 THEN UpdateInsight(insights, rp[p].industry, now)
                 ELSE insights
  /\ rp' = [rp EXCEPT ![p] = [@ EXCEPT !.pc = "wNext",
               !.created = IF ok THEN @ + 1 ELSE @]]
  /\ UNCHANGED <<db, now, nCalls, callers, gw, letters, userRows, hook>>

WkNext(p) ==
  /\ rp[p].pc = "wNext"
  /\ rp' = [rp EXCEPT ![p] =
       IF rp[p].indIdx < Len(rp[p].industries)
       THEN [@ EXCEPT !.pc = "wGenerate", !.indIdx = @ + 1]
       ELSE [@ EXCEPT !.pc = "done"]]
  /\ UNCHANGED <<db, now, nCalls, callers, gw, insights, letters, userRows, hook>>

(* The positions whose next step reads the clock: the staleness test, the   *)
(* fallback's current date and the store's createdAt default.               *)
ClockReaders ==
  {"idle", "fetch", "fallback", "create", "mCreate", "tCreate", "iCreate",
   "wUpdate"}

(* A day passes.  No other step reads the clock, so a day that passes       *)
(* elsewhere is taken as passing right before the next step that reads it.  *)
Tick ==
  /\ now < MaxDays * DayMs
  /\ \E p \in callers : rp[p].pc \in ClockReaders
  /\ now' = now + DayMs
  /\ UNCHANGED <<db, nCalls, callers, rp, gw, insights, letters, userRows, hook>>

----------------------------------------------------------------------------
Init ==
  /\ db = <<>>
  /\ now = 0
  /\ nCalls = 0
  /\ callers = {1}
  /\ rp = [p \in Procs |-> RpIdle]
  /\ gw = [p \in Procs |-> GwIdle]
  /\ letters = <<>>
  /\ userRows = UserTable
  /\ hook = HookInit
  /\ insights = <<>>

Next ==
  \/ Tick
  \/ \E p \in Procs, ind \in Industries, authed \in BOOLEAN : RpCall(p, ind, authed)
  \/ \E p \in Procs : RpFetchExisting(p)
  \/ \E p \in Procs : GenAttempt(p)
  \/ \E p \in Procs, outcome \in Outcomes : GwModelCall(p, outcome)
  \/ \E p \in Procs, content \in Contents : GenParse(p, content)
  \/ \E p \in Procs : GenGatewayFailed(p)
  \/ \E p \in Procs, n \in FallbackLens : GenFallback(p, n)
  \/ \E p \in Procs : RpDeactivate(p)
  \/ \E p \in Procs, ok \in BOOLEAN : RpCreate(p, ok)
  \/ \E p \in Procs : RpRefetch(p)
  \/ \E p \in Procs : RpFinish(p)

Spec == Init /\ [][Next]_vars

----------------------------------------------------------------------------
(* The three refresh paths, one operation at a time, over a store whose     *)
(* industryInsight table holds rows for some of the industries.             *)

IndustryLists ==
  {<<>>} \cup {<<i>> : i \in Industries}
         \cup {l \in {<<i, j>> : i, j \in Industries} : l[1] # l[2]}

InitRefresh ==
  /\ db = <<>>
  /\ now = 0
  /\ nCalls = 0
  /\ callers = {1}
  /\ rp = [p \in Procs |-> RpIdle]
  /\ gw = [p \in Procs |-> GwIdle]
  /\ letters = <<>>
  /\ userRows = UserTable
  /\ hook = HookInit
  /\ insights \in {[i \in DOMAIN l |-> InsightRow(l[i], 0, "generated")] :
                    l \in IndustryLists}

NextRefresh ==
  \/ Next
  \/ \E p \in Procs : MuCall(p)
  \/ \E p \in Procs : MuDeactivate(p)
  \/ \E p \in Procs : MuAfterGenerate(p)
  \/ \E p \in Procs, ok \in BOOLEAN : MuCreate(p, ok)
  \/ \E p \in Procs : MuNext(p)
  \/ \E p \in Procs : TkCall(p)
  \/ \E p \in Procs : TkGenerate(p)
  \/ \E p \in Procs : TkGatewayFailed(p)
  \/ \E p \in Procs, content \in Contents : TkParse(p, content)
  \/ \E p \in Procs : TkDeactivate(p)
  \/ \E p \in Procs, ok \in BOOLEAN : TkCreate(p, ok)
  \/ \E p \in Procs : TkNext(p)

SpecRefresh == InitRefresh /\ [][NextRefresh]_vars

----------------------------------------------------------------------------
(* The read path over a store that earlier refreshes have left behind: one  *)
(* superseded (inactive) record per industry, created at time 0.            *)

SupersededRow(id, ind) ==
  [id |-> id, industry |-> ind, isActive |-> FALSE, createdAt |-> 0,
   postedDate |-> 1, cycle |-> 0]

InitSuperseded ==
  /\ db = <<SupersededRow(1, "finance"), SupersededRow(2, "tech")>>
  /\ now = 0
  /\ nCalls = 0
  /\ callers = {1}
  /\ rp = [p \in Procs |-> RpIdle]
  /\ gw = [p \in Procs |-> GwIdle]
  /\ letters = <<>>
  /\ userRows = UserTable
  /\ hook = HookInit
  /\ insights = <<>>

SpecSuperseded == InitSuperseded /\ [][Next]_vars

----------------------------------------------------------------------------
(* The read path over a store that holds more active records of one         *)
(* industry than the query takes (left by several refreshes of the daily    *)
(* tick or of racing calls), posted on different days.                      *)

CrowdSize == Take + 1

CrowdedRow(id) ==
  [id |-> id, industry |-> "finance", isActive |-> TRUE, createdAt |-> 0,
   postedDate |-> (id % 3) + 1, cycle |-> 0]

InitCrowded ==
  /\ db = [i \in 1 .. CrowdSize |-> CrowdedRow(i)]
  /\ now = 0
  /\ nCalls = 0
  /\ callers = {1}
  /\ rp = [p \in Procs |-> RpIdle]
  /\ gw = [p \in Procs |-> GwIdle]
  /\ letters = <<>>
  /\ userRows = UserTable
  /\ hook = HookInit
  /\ insights = <<>>

SpecCrowded == InitCrowded /\ [][Next]_vars

----------------------------------------------------------------------------
(* The manual update on its own, over a store where an earlier refresh has  *)
(* left one active record per industry.  The handler is one sequential      *)
(* async function: each of its awaits settles, so a run that has a next     *)
(* step takes it.                                                           *)

ActiveRow(id, ind) ==
  [id |-> id, industry |-> ind, isActive |-> TRUE, createdAt |-> 0,
   postedDate |-> 1, cycle |-> 0]

InitManual ==
  /\ db = <<ActiveRow(1, "finance"), ActiveRow(2, "tech")>>
  /\ now = 0
  /\ nCalls = 0
  /\ callers = {1}
  /\ rp = [p \in Procs |-> RpIdle]
  /\ gw = [p \in Procs |-> GwIdle]
  /\ letters = <<>>
  /\ userRows = UserTable
  /\ hook = HookInit
  /\ insights \in {[i \in DOMAIN l |-> InsightRow(l[i], 0, "generated")] :
                    l \in IndustryLists}

ManualRun(p) ==
  \/ MuDeactivate(p)
  \/ GenAttempt(p)
  \/ \E outcome \in Outcomes : GwModelCall(p, outcome)
  \/ \E content \in Contents : GenParse(p, content)
  \/ GenGatewayFailed(p)
  \/ \E n \in FallbackLens : GenFallback(p, n)
  \/ MuAfterGenerate(p)
  \/ \E ok \in BOOLEAN : MuCreate(p, ok)
  \/ MuNext(p)

NextManual ==
  \/ Tick
  \/ \E p \in Procs : MuCall(p)
  \/ \E p \in Procs : ManualRun(p)
  \/ \E p \in Procs : RpFinish(p)

SpecManual ==
  InitManual /\ [][NextManual]_vars /\ \A p \in Procs : WF_vars(ManualRun(p))

----------------------------------------------------------------------------
(* Two callers of the read path at the same moment, over a store whose one  *)
(* batch is older than the TTL.  No time passes during the calls.           *)

InitRace ==
  /\ db = <<ActiveRow(1, "finance")>>
  /\ now = (JobTtlDays + 1) * DayMs
  /\ nCalls = 0
  /\ callers = {1, 2}
  /\ rp = [p \in Procs |-> RpIdle]
  /\ gw = [p \in Procs |-> GwIdle]
  /\ letters = <<>>
  /\ userRows = UserTable
  /\ hook = HookInit
  /\ insights = <<>>

NextRace ==
  \/ \E p \in Procs, ind \in Industries, authed \in BOOLEAN : RpCall(p, ind, authed)
  \/ \E p \in Procs : RpFetchExisting(p)
  \/ \E p \in Procs : GenAttempt(p)
  \/ \E p \in Procs, outcome \in Outcomes : GwModelCall(p, outcome)
  \/ \E p \in Procs, content \in Contents : GenParse(p, content)
  \/ \E p \in Procs : GenGatewayFailed(p)
  \/ \E p \in Procs, n \in FallbackLens : GenFallback(p, n)
  \/ \E p \in Procs : RpDeactivate(p)
  \/ \E p \in Procs, ok \in BOOLEAN : RpCreate(p, ok)
  \/ \E p \in Procs : RpRefetch(p)
  \/ \E p \in Procs : RpFinish(p)

SpecRace == InitRace /\ [][NextRace]_vars

----------------------------------------------------------------------------
(* The industry insights: two sessions that request insights, and the       *)
(* weekly tick, over a table that starts empty.                             *)

InitInsight ==
  /\ db = <<>>
  /\ now = 0
  /\ nCalls = 0
  /\ callers = {1, 2}
  /\ rp = [p \in Procs |-> RpIdle]
  /\ gw = [p \in Procs |-> GwIdle]
  /\ letters = <<>>
  /\ userRows = UserTable
  /\ hook = HookInit
  /\ insights = <<>>

NextInsight ==
  \/ Tick
  \/ \E p \in Procs, u \in ClerkIds, authed \in BOOLEAN : GiCall(p, u, authed)
  \/ \E p \in Procs : GiLookup(p)
  \/ \E p \in Procs : GiGenerate(p)
  \/ \E p \in Procs, outcome \in Outcomes : GwModelCall(p, outcome)
  \/ \E p \in Procs, content \in Contents : GiParse(p, content)
  \/ \E p \in Procs : GiGatewayFailed(p)
  \/ \E p \in Procs, ok \in BOOLEAN : GiCreate(p, ok)
  \/ \E p \in Procs : WkCall(p)
  \/ \E p \in Procs : WkGenerate(p)
  \/ \E p \in Procs : WkGatewayFailed(p)
  \/ \E p \in Procs, content \in Contents : WkParse(p, content)
  \/ \E p \in Procs, ok \in BOOLEAN : WkUpdate(p, ok)
  \/ \E p \in Procs : WkNext(p)
  \/ \E p \in Procs : RpFinish(p)

SpecInsight == InitInsight /\ [][NextInsight]_vars

----------------------------------------------------------------------------
(* A session of the read path and a process that runs any of the three      *)
(* refresh paths, at the same moment, over a store with one batch per       *)
(* industry, older than the TTL; one industry has insights, so that the     *)
(* manual update and the daily tick refresh that one.                       *)
(* No time passes during the runs.                                          *)

InitMixed ==
  /\ db = <<ActiveRow(1, "finance"), ActiveRow(2, "tech")>>
  /\ now = (JobTtlDays + 1) * DayMs
  /\ nCalls = 0
  /\ callers = {1, 2}
  /\ rp = [p \in Procs |-> RpIdle]
  /\ gw = [p \in Procs |-> GwIdle]
  /\ letters = <<>>
  /\ userRows = UserTable
  /\ hook = HookInit
  /\ insights = <<InsightRow("tech", 0, "generated")>>

(* The processes that run the manual update and the daily tick; the other  *)
(* process is a session of the read path.                                   *)
Operators == {2}

NextMixed ==
  \/ NextRace
  \/ \E p \in Operators : MuCall(p)
  \/ \E p \in Operators : MuDeactivate(p)
  \/ \E p \in Operators : MuAfterGenerate(p)
  \/ \E p \in Operators, ok \in BOOLEAN : MuCreate(p, ok)
  \/ \E p \in Operators : MuNext(p)
  \/ \E p \in Operators : TkCall(p)
  \/ \E p \in Operators : TkGenerate(p)
  \/ \E p \in Operators : TkGatewayFailed(p)
  \/ \E p \in Operators, content \in Contents : TkParse(p, content)
  \/ \E p \in Operators : TkDeactivate(p)
  \/ \E p \in Operators, ok \in BOOLEAN : TkCreate(p, ok)
  \/ \E p \in Operators : TkNext(p)

SpecMixed == InitMixed /\ [][NextMixed]_vars

----------------------------------------------------------------------------
(* The read path whose started calls go on: the call is one sequential      *)
(* async function and each external call it awaits returns or throws.       *)

ReadRun(p) ==
  \/ RpFetchExisting(p)
  \/ GenAttempt(p)
  \/ \E outcome \in Outcomes : GwModelCall(p, outcome)
  \/ \E content \in Contents : GenParse(p, content)
  \/ GenGatewayFailed(p)
  \/ \E n \in FallbackLens : GenFallback(p, n)
  \/ RpDeactivate(p)
  \/ \E ok \in BOOLEAN : RpCreate(p, ok)
  \/ RpRefetch(p)

SpecLive == Init /\ [][Next]_vars /\ \A p \in Procs : WF_vars(ReadRun(p))

----------------------------------------------------------------------------
(* The gateway on its own: any of its three copies is invoked with a prompt *)
(* and runs to its return or its throw.                                     *)

GwInvoke(p, variant) ==
  /\ p \in callers
  /\ rp[p].pc = "idle"
  /\ gw[p].status = "idle"
  /\ gw' = [gw EXCEPT ![p] = GwStarted(variant)]
  /\ UNCHANGED <<db, now, nCalls, callers, rp, insights, letters, userRows, hook>>

GwSettle(p) ==
  /\ rp[p].pc = "idle"
  /\ gw[p].status \in {"returned", "failed"}
  /\ gw' = [gw EXCEPT ![p] = GwIdle]
  /\ UNCHANGED <<db, now, nCalls, callers, rp, insights, letters, userRows, hook>>

NextGw ==
  \/ \E p \in Procs, variant \in Variants : GwInvoke(p, variant)
  \/ \E p \in Procs, outcome \in Outcomes : GwModelCall(p, outcome)
  \/ \E p \in Procs : GwSettle(p)

SpecGw == Init /\ [][NextGw]_vars

TypeOK ==
  /\ now \in 0 .. (NextUpdateDays + 1) * DayMs
  /\ nCalls \in 0 .. MaxCalls
  /\ \A p \in Procs :
       /\ rp[p].pc \in {"idle", "fetch", "generate", "gateway", "fallback",
                        "deactivate", "create", "refetch", "done",
                        "mDeactivate", "mAfterGen", "mCreate", "mNext",
                        "tGenerate", "tGateway", "tDeactivate", "tCreate",
                        "tNext", "iLookup", "iGenerate", "iGateway", "iCreate",
                        "wGenerate", "wGateway", "wUpdate", "wNext",
                        "cLookup", "cGenerate", "cGateway", "cFallback",
                        "rLookup", "rGenerate", "rGateway",
                        "uFind", "uCreate"}
       /\ rp[p].op \in {"none", "read", "manual", "tick", "insights", "weekly",
                        "letter", "improve", "checkUser"}
       /\ gw[p].status \in {"idle", "running", "returned", "failed"}
       /\ rp[p].pc \in {"gateway", "tGateway", "iGateway", "wGateway",
                         "cGateway", "rGateway"} =>
            gw[p].status # "idle"
       /\ gw[p].status # "idle" =>
            \/ rp[p].pc \in {"gateway", "tGateway", "iGateway", "wGateway",
                         "cGateway", "rGateway"}
            \/ rp[p].op = "none"
  /\ \A i \in DOMAIN db : db[i].id = i /\ db[i].createdAt <= now

----------------------------------------------------------------------------
(* What the claims speak of *)

Done(p) == rp[p].pc = "done"

(* The call got past the auth check and the query of step 1 *)
Fetched(p) ==
  /\ rp[p].op = "read"
  /\ rp[p].pc \notin {"idle", "fetch"}
  /\ rp[p].result.kind # "raise"

(* The staleness gate sent the call to the Generate step *)
Attempted(p) == rp[p].shouldFetchNew

ActiveAtStart(p) == ActiveRows(rp[p].dbAtStart, rp[p].industry)

AgeAtFetch(p, r) == rp[p].fetchedAt - r.createdAt

(* Generation failed: the gateway threw, every model having failed, on the  *)
(* first attempt, which is then the only one.                               *)
GenerationFailed(p) == rp[p].genOutcome = "allModelsFailed"

(* The text of the last attempt was not well-formed, or it parsed to a      *)
(* value without a jobs list.                                               *)
MalformedResponse(p) ==
  \/ rp[p].genOutcome = "malformed"
  \/ rp[p].jobData.kind \in {"noJobs", "null"}

----------------------------------------------------------------------------
(* C1: when the cached set is stale and generation fails (every model       *)
(* fails on every attempt), the call deactivates and creates no record and  *)
(* returns, without raising, the sequence of active records it fetched at   *)
(* the start.  The code commits the fallback job list instead.              *)
C1_StaleServedOnGenerationFailure ==
  \A p \in Procs :
    (Done(p) /\ Fetched(p) /\ ActiveAtStart(p) # {} /\ GenerationFailed(p)) =>
      /\ db = rp[p].dbAtStart
      /\ rp[p].result = Returned(rp[p].existingJobs)

(* C2: a read-path refresh that starts with at least one active record for  *)
(* the industry never ends with zero active records for it.  The code       *)
(* deactivates before it knows that any record will be created.             *)
C2_NeverZeroActiveAfterRefresh ==
  \A p \in Procs :
    (Done(p) /\ Fetched(p) /\ ActiveAtStart(p) # {}) =>
      ActiveRows(db, rp[p].industry) # {}

(* C3: a generated text that is not well-formed, or has no jobs list, sends *)
(* the read path to the fallback: no record is deactivated and the set of   *)
(* step 1 is returned.                                                      *)
C3_MalformedTakesFallbackPath ==
  \A p \in Procs :
    (Done(p) /\ Fetched(p) /\ MalformedResponse(p)) =>
      /\ ~rp[p].deactivated
      /\ db = rp[p].dbAtStart
      /\ rp[p].result = Returned(rp[p].existingJobs)

(* A refresh cycle of the process has committed and ended: the read path   *)
(* has returned after its updateMany, the manual update or the daily tick   *)
(* is between two industries after the updateMany of the one it leaves.     *)
CycleEnded(p) ==
  /\ rp[p].deactivated
  /\ rp[p].pc \in {"done", "mNext", "tNext"}

(* C4: after a refresh cycle that commits, on any of the three paths and    *)
(* with no other refresh of the industry under way, at most one batch is    *)
(* active: every record of the industry that was active before the commit   *)
(* is inactive and every active record of the industry is of this cycle.    *)
C4_OneActiveBatch ==
  \A p \in Procs :
    CycleEnded(p) =>
      /\ \A r \in ActiveAtStart(p) : ~db[r.id].isActive
      /\ \A r \in ActiveRows(db, rp[p].industry) : r.cycle = rp[p].cycle

C4_Witness ==
  \E p \in Procs :
    /\ CycleEnded(p)
    /\ rp[p].op = "tick"
    /\ Cardinality(ActiveAtStart(p)) >= 2
    /\ ActiveRows(db, rp[p].industry) # {}

(* C5: when the industry has active records, all younger than the 3-day    *)
(* TTL, the call returns exactly the fetched records, makes no gateway call *)
(* and leaves every record as it was.                                       *)
C5_FreshServedUntouched ==
  \A p \in Procs :
    (Fetched(p) /\ ActiveAtStart(p) # {}
       /\ \A r \in ActiveAtStart(p) : AgeAtFetch(p, r) < JobTtlMs) =>
      /\ Done(p)
      /\ rp[p].result = Returned(FindManyActive(rp[p].dbAtStart, rp[p].industry))
      /\ ~rp[p].gwCalled
      /\ gw[p].status = "idle"
      /\ db = rp[p].dbAtStart

C5_Witness ==
  \E p \in Procs :
    /\ Done(p) /\ Fetched(p)
    /\ Len(rp[p].result.rows) >= 2
    /\ \A r \in ActiveAtStart(p) : AgeAtFetch(p, r) < JobTtlMs
    /\ \E r \in ActiveAtStart(p) : AgeAtFetch(p, r) = 2 * DayMs

(* C6: the read path attempts a refresh iff the industry has no active      *)
(* record or its batch is older than 3 days: strictly older, so that an age *)
(* of 4 days refreshes and an age of 2 days or of exactly 3 days does not.  *)
C6_RefreshIffStale ==
  \A p \in Procs :
    Fetched(p) =>
      /\ ActiveAtStart(p) = {} => Attempted(p)
      /\ (ActiveAtStart(p) # {}
            /\ \A r \in ActiveAtStart(p) : AgeAtFetch(p, r) > JobTtlMs)
           => Attempted(p)
      /\ (ActiveAtStart(p) # {}
            /\ \A r \in ActiveAtStart(p) : AgeAtFetch(p, r) <= JobTtlMs)
           => ~Attempted(p)
      /\ (ActiveAtStart(p) # {}
            /\ \A r \in ActiveAtStart(p) : AgeAtFetch(p, r) = 4 * DayMs)
           => Attempted(p)
      /\ (ActiveAtStart(p) # {}
            /\ \A r \in ActiveAtStart(p) : AgeAtFetch(p, r) \in {2 * DayMs, 3 * DayMs})
           => ~Attempted(p)

C6_Witness ==
  \E p \in Procs :
    /\ Done(p) /\ Fetched(p) /\ ~Attempted(p)
    /\ ActiveAtStart(p) # {}
    /\ \A r \in ActiveAtStart(p) : AgeAtFetch(p, r) = 3 * DayMs

(* C7: on a cold start (no active record) where generation also fails, the  *)
(* call returns an empty sequence and creates no record.  The code creates  *)
(* and returns the fallback jobs.                                           *)
C7_ColdStartFailureReturnsEmpty ==
  \A p \in Procs :
    (Done(p) /\ Fetched(p) /\ ActiveAtStart(p) = {} /\ GenerationFailed(p)) =>
      /\ rp[p].result = Returned(<<>>)
      /\ db = rp[p].dbAtStart

(* C8: the gateway invokes the models in the order of the list, each at     *)
(* most once, and returns the text of the first model that succeeds: no     *)
(* model is invoked after a success.                                        *)
C8_FirstSuccessWins ==
  \A p \in Procs :
    LET g == gw[p]
    IN /\ Len(g.calls) <= NumModels
       /\ g.calls = [i \in 1 .. Len(g.calls) |-> i]
       /\ g.status \in {"running", "failed"} => g.firstOk = 0 /\ g.text = 0
       /\ g.status = "returned" =>
            /\ g.firstOk = g.calls[Len(g.calls)]
            /\ g.text = g.firstOk

C8_Witness ==
  \E p \in Procs :
    /\ gw[p].status = "returned"
    /\ gw[p].calls = <<1, 2>>
    /\ gw[p].lastErr = "notFound"
    /\ gw[p].text = 2

(* C9: if every model fails, whatever the class of each failure, the        *)
(* gateway throws after exactly one invocation of each model: no model is   *)
(* invoked twice and no value is returned.                                  *)
C9_AllFailRaises ==
  \A p \in Procs :
    LET g == gw[p]
    IN /\ g.status = "failed" =>
            g.calls = [i \in 1 .. NumModels |-> i] /\ g.firstOk = 0 /\ g.text = 0
       /\ (Len(g.calls) >= NumModels /\ g.firstOk = 0) => g.status = "failed"
       /\ \A i, j \in DOMAIN g.calls : g.calls[i] = g.calls[j] => i = j

C9_Witness ==
  \E p \in Procs :
    /\ gw[p].status = "failed"
    /\ gw[p].variant = "coverLetter"
    /\ gw[p].lastErr = "rateLimited"
    /\ Len(gw[p].calls) = NumModels

(* C10: after a 429 the gateway of the job refresh waits 2000 ms before the *)
(* next model, and before it throws when all are rate limited.  The         *)
(* gateway of the dashboard actions has no such wait.                       *)
C10_JobGatewayWaitsAfterRateLimit ==
  \A p \in Procs :
    (gw[p].variant = "dashboard" /\ gw[p].lastErr = "rateLimited") =>
      /\ gw[p].slept # <<>>
      /\ \A i \in DOMAIN gw[p].slept : gw[p].slept[i] = RateLimitDelayMs

(* C11: when the gateway fails on an unavailable service (503) and attempts *)
(* remain, generateJobOpportunities waits 2^attempt seconds and invokes the *)
(* gateway again.  The error the gateway throws never holds "503", so the   *)
(* retry loop is left for the fallback data after the first attempt.        *)
C11_RetriesWhenUnavailable ==
  [][\A p \in Procs :
       (/\ rp[p].pc = "gateway"
        /\ gw[p].status = "failed"
        /\ gw[p].lastErr = "unavailable"
        /\ rp[p].attempt < MaxRetries
        /\ rp'[p] # rp[p]) =>
         /\ rp'[p].pc = "generate"
         /\ rp'[p].attempt = rp[p].attempt + 1
         /\ rp'[p].genSlept = Append(rp[p].genSlept, RetryDelayMs(rp[p].attempt))]_vars

InactiveRows(d) == {d[i] : i \in {j \in DOMAIN d : ~d[j].isActive}}

(* The generation of the call returned a list of entries and every one of   *)
(* them was created.                                                        *)
AllCreated(p) ==
  /\ rp[p].jobData.kind = "jobs"
  /\ rp[p].created = Len(rp[p].jobData.jobs)

(* C12: for an industry without active records, a read-path refresh whose   *)
(* generation returns N entries, all of them created, leaves exactly N      *)
(* active records of the industry and the inactive records as they were.    *)
C12_ColdRefreshLeavesExactlyN ==
  \A p \in Procs :
    (Done(p) /\ Fetched(p) /\ ActiveAtStart(p) = {} /\ AllCreated(p)) =>
      /\ Cardinality(ActiveRows(db, rp[p].industry)) = Len(rp[p].jobData.jobs)
      /\ InactiveRows(db) = InactiveRows(rp[p].dbAtStart)

C12_Witness ==
  \E p \in Procs :
    /\ Done(p) /\ Fetched(p) /\ ActiveAtStart(p) = {} /\ AllCreated(p)
    /\ rp[p].genOutcome = "parsed"
    /\ rp[p].created = 2
    /\ \E r \in InactiveRows(rp[p].dbAtStart) : r.industry = rp[p].industry
    /\ \E r \in ActiveRows(rp[p].dbAtStart, "finance") : rp[p].industry = "tech"

(* C13: the sequence getJobOpportunities returns, on every path, holds only *)
(* active records of the requested industry (as the store has them, unless  *)
(* the call fell back on the set of step 1), in non-increasing order of     *)
(* postedDate, at most 20 of them; after a refresh of an industry without   *)
(* active records it holds exactly the records the refresh created.         *)
C13_ReturnedSequence ==
  \A p \in Procs :
    (Done(p) /\ Fetched(p)) =>
      LET rows == rp[p].result.rows
      IN /\ \A i \in DOMAIN rows :
              /\ rows[i].isActive
              /\ rows[i].industry = rp[p].industry
              /\ rp[p].jobData.kind # "null" => db[rows[i].id] = rows[i]
         /\ \A i, j \in DOMAIN rows :
              i < j => rows[i].postedDate >= rows[j].postedDate
         /\ Len(rows) <= Take
         /\ (Attempted(p) /\ ActiveAtStart(p) = {}) =>
              Len(rows) = Min(rp[p].created, Take)

C13_Witness ==
  \E p \in Procs :
    /\ Done(p) /\ Fetched(p)
    /\ Cardinality(ActiveAtStart(p)) > Take
    /\ Len(rp[p].result.rows) = Take
    /\ rp[p].result.rows[1].postedDate > rp[p].result.rows[Take].postedDate

(* The Commit step of the call went through a list of entries *)
Committed(p) ==
  /\ Done(p) /\ Fetched(p) /\ Attempted(p)
  /\ rp[p].jobData.kind = "jobs"

(* C14: in the Commit step of the read path a create that fails does not    *)
(* abort the batch: every entry of the list is tried, the industry ends     *)
(* with as many active records as creates succeeded (N - k for k failures), *)
(* and the call returns them without raising.                               *)
C14_CreateFailureSkipsEntry ==
  \A p \in Procs :
    Committed(p) =>
      LET n == Len(rp[p].jobData.jobs)
      IN /\ n > 0 => rp[p].jobIdx = n + 1
         /\ rp[p].created <= n
         /\ Cardinality(ActiveRows(db, rp[p].industry)) = rp[p].created
         /\ rp[p].result = Returned(FindManyActive(db, rp[p].industry))

C14_Witness ==
  \E p \in Procs :
    /\ Committed(p)
    /\ Len(rp[p].jobData.jobs) = 2
    /\ rp[p].created = 1
    /\ rp[p].jobData.jobs[1].postedDate # rp[p].jobData.jobs[2].postedDate
    /\ \A r \in ActiveRows(db, rp[p].industry) :
         r.postedDate = rp[p].jobData.jobs[2].postedDate

(* C15: the manual update deactivates the records of an industry only after *)
(* generation and parsing for that industry have succeeded.  The code       *)
(* opens each iteration with the updateMany and generates afterwards.       *)
C15_ManualDeactivatesAfterGeneration ==
  \A p \in Procs :
    (rp[p].op = "manual" /\ rp[p].deactivated /\ ActiveAtStart(p) # {}) =>
      /\ rp[p].gwCalled
      /\ rp[p].genOutcome # "none"

(* The records the store holds of a refresh cycle *)
RowsOfCycle(d, c) == {d[i] : i \in {j \in DOMAIN d : d[j].cycle = c}}

(* C16: the report of the manual update has exactly one entry per known     *)
(* industry, in processing order, a success or an error, whatever           *)
(* generation returned; jobsCreated is the number of records created for    *)
(* the industry.  The code reports nothing for an industry whose generated  *)
(* data has no jobs list.                                                   *)
C16_ReportOnePerIndustry ==
  \A p \in Procs :
    (rp[p].op = "manual" /\ Done(p) /\ rp[p].status = 200) =>
      LET report == rp[p].results
      IN /\ Len(report) = Len(rp[p].industries)
         /\ \A i \in DOMAIN report :
              /\ i <= Len(rp[p].industries) =>
                   report[i].industry = rp[p].industries[i]
              /\ report[i].status \in {"success", "error"}
              /\ report[i].status = "success" =>
                   report[i].jobsCreated =
                     Cardinality(RowsOfCycle(db, rp[p].cycleBase + i))

(* The run of the manual update is inside the iteration of an industry *)
InIteration(p) ==
  /\ rp[p].op = "manual"
  /\ rp[p].pc \in {"generate", "gateway", "fallback", "mAfterGen", "mCreate", "mNext"}

(* C17: the manual update processes the industries one at a time in list    *)
(* order, and a failure in one industry does not stop the run: the next     *)
(* industry is still deactivated, generated and committed, and the run      *)
(* ends with a response.                                                    *)
C17_ManualFailureDoesNotStopRun ==
  /\ [](\A p \in Procs :
          /\ InIteration(p) =>
               /\ rp[p].indIdx \in 1 .. Len(rp[p].industries)
               /\ rp[p].industry = rp[p].industries[rp[p].indIdx]
               /\ Len(rp[p].results) < rp[p].indIdx \/ rp[p].pc = "mNext"
               /\ rp[p].deactivated
               /\ ActiveRows(db, rp[p].industry) \subseteq RowsOfCycle(db, rp[p].cycle)
               /\ rp[p].pc \in {"mAfterGen", "mCreate", "mNext"} => rp[p].genOutcome # "none"
          /\ (rp[p].op = "manual" /\ Done(p) /\ rp[p].status = 200) =>
               /\ rp[p].indIdx = Len(rp[p].industries)
               /\ \A i \in 1 .. Len(rp[p].industries) :
                    ActiveRows(db, rp[p].industries[i])
                      \subseteq RowsOfCycle(db, rp[p].cycleBase + i))
  /\ [][\A p \in Procs :
          (rp[p].op = "manual" /\ rp[p].pc = "mNext" /\ rp'[p] # rp[p]
             /\ rp[p].indIdx < Len(rp[p].industries)) =>
            /\ rp'[p].pc = "mDeactivate"
            /\ rp'[p].indIdx = rp[p].indIdx + 1
            /\ rp'[p].results = rp[p].results]_vars
  /\ \A p \in Procs :
       (rp[p].op = "manual") ~> (Done(p) /\ rp[p].status \in {200, 400})

C17_Witness ==
  \E p \in Procs :
    /\ rp[p].op = "manual" /\ Done(p) /\ rp[p].status = 200
    /\ Len(rp[p].industries) = 2
    /\ Len(rp[p].results) = 2
    /\ rp[p].results[1].status = "error"
    /\ rp[p].results[2].status = "success"
    /\ rp[p].results[2].jobsCreated = 2
    /\ \A i \in DOMAIN db : db[i].cycle = 0 => ~db[i].isActive

(* C18: no step of a refresh path deletes a record or makes an inactive     *)
(* record active again: every record stays in the store under its id, with  *)
(* its fields, and isActive only ever goes from true to false.              *)
C18_NeverDeletedNeverReactivated ==
  [][/\ Len(db') >= Len(db)
     /\ \A i \in DOMAIN db :
          /\ db'[i].id = db[i].id
          /\ ~db[i].isActive => ~db'[i].isActive
          /\ [db'[i] EXCEPT !.isActive = db[i].isActive] = db[i]]_vars

C18_Witness ==
  \E i, j \in DOMAIN db :
    /\ i < j
    /\ db[i].industry = db[j].industry
    /\ ~db[i].isActive /\ db[i].cycle = 1
    /\ db[j].isActive /\ db[j].cycle = 2
    /\ \E p \in Procs : rp[p].op = "tick" /\ rp[p].pc = "tCreate"

(* C19: two calls of the read path for the same stale industry are not      *)
(* mutually excluded: while one call is refreshing the industry, the        *)
(* query and staleness gate of the other can be taken, and as long as the   *)
(* store still shows the batch the first call found stale, the gate sends   *)
(* the other call to the Generate step as well.  Both then commit.          *)
C19_RefreshNotExclusive ==
  \A p, q \in Procs :
    (p # q /\ rp[p].pc = "fetch" /\ Refreshing(q, rp[p].industry)) =>
      /\ ENABLED RpFetchExisting(p)
      /\ FindManyActive(db, rp[p].industry) = rp[q].existingJobs =>
           ShouldFetchNew(FindManyActive(db, rp[p].industry), now)

(* Both calls passed the gate and committed; records of the two refresh     *)
(* cycles are active at the same time.                                      *)
C19_Witness ==
  \E p, q \in Procs :
    /\ p # q
    /\ Done(p) /\ Done(q)
    /\ rp[p].industry = rp[q].industry
    /\ Attempted(p) /\ Attempted(q)
    /\ rp[p].deactivated /\ rp[q].deactivated
    /\ ActiveAtStart(p) # {} /\ ActiveAtStart(q) # {}
    /\ \E r1, r2 \in ActiveRows(db, rp[p].industry) :
         r1.cycle = rp[p].cycle /\ r2.cycle = rp[q].cycle

(* C20: getJobOpportunities called without an authenticated user raises     *)
(* Unauthorized before any store read, any store write and any gateway      *)
(* call: the call has ended, the store is as it was, and the call holds no  *)
(* fetched record, no staleness verdict and no gateway invocation.          *)
C20_UnauthorizedBeforeAnyEffect ==
  \A p \in Procs :
    (rp[p].op = "read" /\ rp[p].result = Raised("Unauthorized")) =>
      /\ Done(p)
      /\ db = rp[p].dbAtStart
      /\ rp[p].existingJobs = <<>> /\ ~rp[p].shouldFetchNew
      /\ ~rp[p].deactivated /\ rp[p].created = 0
      /\ ~rp[p].gwCalled /\ gw[p].status = "idle"

C20_Witness ==
  \E p \in Procs :
    /\ rp[p].op = "read" /\ rp[p].result = Raised("Unauthorized")
    /\ \E r \in ActiveAtStart(p) : now - r.createdAt > JobTtlMs

(* C21: the daily tick never leaves an industry that had active records     *)
(* with none: it deactivates only when the text parsed and replacement      *)
(* records are created.  The code deactivates as soon as the text parsed,   *)
(* before it looks for a jobs list and before any create.                   *)
C21_TickNeverLeavesZeroActive ==
  \A p \in Procs :
    (rp[p].op = "tick" /\ rp[p].pc \in {"tNext", "done"}
       /\ rp[p].industry # "none" /\ ActiveAtStart(p) # {}) =>
      ActiveRows(db, rp[p].industry) # {}

(* C22: an IndustryInsight row is created at most once per industry.        *)
(* getIndustryInsights creates a row only when the user's industry has      *)
(* none, and otherwise returns the existing row with no gateway call and no *)
(* write; the weekly tick only updates rows in place; no step deletes a row *)
(* or changes its key.                                                      *)
C22_InsightCreatedOnce ==
  /\ [](\A i, j \in DOMAIN insights :
          insights[i].industry = insights[j].industry => i = j)
  /\ [][/\ Len(insights') >= Len(insights)
        /\ \A i \in DOMAIN insights : insights'[i].industry = insights[i].industry
        /\ Len(insights') > Len(insights) =>
             \E p \in Procs :
               /\ rp[p].op = "insights" /\ rp[p].pc = "iCreate"
               /\ ~HasInsight(insights, rp[p].industry)
               /\ insights' = Append(insights, insights'[Len(insights')])
               /\ insights'[Len(insights')].industry = rp[p].industry
        /\ \A i \in DOMAIN insights :
             insights'[i] # insights[i] =>
               \E p \in Procs :
                 /\ rp[p].op = "weekly" /\ rp[p].pc = "wUpdate"
                 /\ rp[p].industry = insights[i].industry
                 /\ Len(insights') = Len(insights)
        /\ \A p \in Procs :
             (/\ rp[p].pc = "iLookup" /\ rp'[p] # rp[p]
              /\ rp[p].user \in Users
              /\ HasInsight(insights, UserIndustry[rp[p].user])) =>
               /\ rp'[p].pc = "done"
               /\ rp'[p].result =
                    Returned(<<InsightOf(insights, UserIndustry[rp[p].user])>>)
               /\ ~rp'[p].gwCalled /\ gw'[p] = gw[p]
               /\ insights' = insights]_vars

(* Two sessions of the same industry both found no row and both generated;  *)
(* one created the row, the create of the other was rejected.               *)
C22_Witness ==
  \E p, q \in Procs :
    /\ p # q
    /\ rp[p].op = "insights" /\ rp[q].op = "insights"
    /\ Done(p) /\ Done(q)
    /\ rp[p].industry = rp[q].industry
    /\ rp[p].gwCalled /\ rp[q].gwCalled
    /\ rp[p].created = 1
    /\ rp[q].result = Raised("PersistenceError")
    /\ Len(insights) = 1 /\ insights[1].industry = rp[p].industry

RECURSIVE MaxCreatedAt(_)
MaxCreatedAt(S) ==
  LET r == CHOOSE x \in S : TRUE
  IN IF S = {r} THEN r.createdAt
     ELSE LET m == MaxCreatedAt(S \ {r})
          IN IF r.createdAt > m THEN r.createdAt ELSE m

(* C23: the timestamp the read path compares against the TTL is the most    *)
(* recent createdAt among the industry's active records, whatever their     *)
(* order by postedDate.  The code compares the createdAt of the record      *)
(* posted last.  Stated for sets whose records differ in postedDate, whose  *)
(* order the query fixes.                                                   *)
C23_GateUsesMostRecentCreatedAt ==
  \A p \in Procs :
    (/\ Fetched(p) /\ ActiveAtStart(p) # {}
     /\ \A r, q \in ActiveAtStart(p) : r.postedDate = q.postedDate => r = q) =>
      (Attempted(p) <=>
         rp[p].fetchedAt - MaxCreatedAt(ActiveAtStart(p)) > JobTtlMs)

(* C24: a refresh of one industry, on any of the three paths, leaves every  *)
(* record of every other industry as it is: a step changes or adds only     *)
(* records of the industry of the process that takes it.  When the only two *)
(* operations so far are a read-path refresh and an operation of another    *)
(* process that is on another industry, the refresh ends as it does alone:  *)
(* its industry holds the records it created and it returns them.           *)
C24_OtherIndustriesUntouched ==
  /\ [][/\ \A i \in DOMAIN db :
             db'[i] # db[i] =>
               \E p \in Procs :
                 rp'[p] # rp[p] /\ rp'[p].industry = db[i].industry
        /\ \A i \in DOMAIN db' \ DOMAIN db :
             \E p \in Procs :
               rp'[p] # rp[p] /\ rp'[p].industry = db'[i].industry]_vars
  /\ [](\A p \in Procs :
          (/\ Committed(p)
           /\ nCalls = 2
           /\ \E q \in Procs \ {p} :
                rp[q].op # "none" /\ rp[q].industry # rp[p].industry) =>
            /\ Cardinality(ActiveRows(db, rp[p].industry)) = rp[p].created
            /\ ActiveRows(db, rp[p].industry) \subseteq RowsOfCycle(db, rp[p].cycle)
            /\ rp[p].result = Returned(FindManyActive(db, rp[p].industry)))

(* A read-path refresh of finance ran from its call to its return while the *)
(* manual update or the daily tick was inside its refresh of tech.          *)
C24_Witness ==
  \E p, q \in Procs :
    /\ Committed(p) /\ rp[p].industry = "finance" /\ rp[p].created = 2
    /\ rp[q].op \in {"manual", "tick"} /\ rp[q].industry = "tech"
    /\ rp[q].pc \in {"mCreate", "tCreate"} /\ rp[q].created = 1
    /\ rp[q].cycle < rp[p].cycle
    /\ \A i \in DOMAIN db : db[i].cycle = 0 => ~db[i].isActive

(* generateJobOpportunities is running for the process *)
Generating(p) == rp[p].pc \in {"generate", "gateway", "fallback"}

(* C25: every call of generateJobOpportunities ends after at most 3 gateway *)
(* invocations (one per attempt), and every gateway invocation after at     *)
(* most 4 model calls, one per model: at most 3 * 4 = 12 model calls, given *)
(* that each external call returns.                                         *)
C25_BoundedGeneration ==
  /\ [](\A p \in Procs :
          Generating(p) =>
            /\ rp[p].attempt \in 1 .. MaxRetries
            /\ Len(gw[p].calls) <= NumModels
            /\ (rp[p].attempt - 1) * NumModels + Len(gw[p].calls)
                 <= MaxRetries * NumModels)
  /\ \A p \in Procs : Generating(p) ~> ~Generating(p)

C25_Witness ==
  \E p \in Procs :
    /\ rp[p].pc = "gateway"
    /\ rp[p].attempt = MaxRetries
    /\ gw[p].status = "returned"
    /\ Len(gw[p].calls) = NumModels

(* C26: the waits of the retry loop are 2 s, 4 s, 8 s: after failed attempt *)
(* k the loop waits 2^k seconds, for k = 1, 2, 3.  The code waits only      *)
(* while attempts remain: after the third attempt it leaves the loop at     *)
(* once, so the wait of 8 s never happens.                                  *)
C26_BackoffTwoFourEight ==
  \A p \in Procs :
    /\ \A k \in DOMAIN rp[p].genSlept :
         rp[p].genSlept[k] = Pow2(k) * 1000
    /\ (rp[p].pc = "fallback" /\ rp[p].attempt = MaxRetries /\ rp[p].last503) =>
         rp[p].genSlept = <<2000, 4000, 8000>>

(* How generateJobOpportunities ended when it returned data that no model   *)
(* produced.                                                                *)
FallbackOutcomes == {"malformed", "allModelsFailed", "failedAfterRetry"}

(* C27: generateJobOpportunities never propagates an error to its caller.   *)
(* A step that ends an attempt of its loop (the gateway threw, or returned  *)
(* a text) either retries, or returns the parsed value, or leaves the loop  *)
(* for the fallback data; the step that follows a failed last attempt       *)
(* returns job data with a non-empty jobs list to the caller; and neither   *)
(* step sets the result of the caller (the caller neither ends nor raises). *)
C27_GenerationNeverRaises ==
  [][\A p \in Procs :
       /\ (rp[p].pc = "gateway" /\ rp[p].op \in {"read", "manual"}
             /\ rp'[p].pc # "gateway") =>
            /\ rp'[p].result = rp[p].result
            /\ \/ rp'[p].pc = "generate" /\ rp'[p].attempt = rp[p].attempt + 1
               \/ rp'[p].pc = "fallback"
               \/ /\ rp'[p].pc \in {"deactivate", "mAfterGen"}
                  /\ rp'[p].genOutcome = "parsed"
       /\ (rp[p].pc = "fallback" /\ rp'[p].pc # "fallback") =>
            /\ rp'[p].result = rp[p].result
            /\ rp'[p].pc \in {"deactivate", "mAfterGen"}
            /\ rp'[p].genOutcome \in FallbackOutcomes
            /\ rp'[p].jobData.kind = "jobs"
            /\ Len(rp'[p].jobData.jobs) >= 1]_vars

(* A first attempt whose text did not parse was retried, the gateway threw   *)
(* on the attempt after it (the last one made, before the third), and the   *)
(* caller holds a non-empty fallback list and has not ended.                *)
C27_Witness ==
  \E p \in Procs :
    /\ rp[p].pc = "deactivate"
    /\ rp[p].genOutcome = "failedAfterRetry"
    /\ rp[p].jobData.kind = "jobs" /\ Len(rp[p].jobData.jobs) >= 1
    /\ rp[p].result.kind = "none"

(* C28: in the manual update a failed create does not abort the batch of    *)
(* its industry: the loop goes on to the next entry, and the industry is    *)
(* reported with status success.  In the code the creates of the manual     *)
(* update share one try block with the whole iteration, so the first        *)
(* failed create ends the batch with an error entry.                        *)
C28_ManualCreateFailureSkipsEntry ==
  [][\A p \in Procs :
       (rp[p].op = "manual" /\ rp[p].pc = "mCreate"
          /\ rp'[p] # rp[p] /\ db' = db) =>
         /\ rp[p].jobIdx < Len(rp[p].jobData.jobs) =>
              /\ rp'[p].pc = "mCreate"
              /\ rp'[p].jobIdx = rp[p].jobIdx + 1
              /\ rp'[p].results = rp[p].results
         /\ rp[p].jobIdx = Len(rp[p].jobData.jobs) =>
              /\ Len(rp'[p].results) = Len(rp[p].results) + 1
              /\ rp'[p].results[Len(rp'[p].results)].industry = rp[p].industry
              /\ rp'[p].results[Len(rp'[p].results)].status = "success"]_vars

(* C29: when the industryInsight table is empty the manual update answers   *)
(* 400 and does nothing else: the step that starts it leaves the store and  *)
(* the gateway as they were, and the request has then ended without a      *)
(* deactivation, a generation, a creation or a report entry; it answers 400 *)
(* in no other case.                                                        *)
C29_NoIndustryAnswers400 ==
  /\ [][\A p \in Procs :
          (rp[p].pc = "idle" /\ rp'[p].op = "manual" /\ Len(insights) = 0) =>
            /\ rp'[p].pc = "done" /\ rp'[p].status = 400
            /\ db' = db /\ gw' = gw /\ nCalls' = nCalls]_vars
  /\ [](\A p \in Procs :
          rp[p].op = "manual" =>
            /\ (rp[p].status = 400) <=> (rp[p].pc = "done" /\ rp[p].industries = <<>>)
            /\ rp[p].industries = <<>> =>
                 /\ ~rp[p].deactivated /\ ~rp[p].gwCalled
                 /\ rp[p].created = 0 /\ rp[p].results = <<>>
                 /\ rp[p].jobData = NoData /\ gw[p] = GwIdle)

(* The manual update has answered 400 while the store held active records,  *)
(* which are all still active.                                              *)
C29_Witness ==
  \E p \in Procs :
    /\ rp[p].op = "manual" /\ rp[p].pc = "done" /\ rp[p].status = 400
    /\ Len(insights) = 0
    /\ db # <<>>
    /\ \A i \in DOMAIN db : db[i].isActive

----------------------------------------------------------------------------
(* The daily tick alone, over a store that holds an active record for each  *)
(* industry.                                                                *)
NextTick ==
  \/ Tick
  \/ \E p \in Procs : TkCall(p)
  \/ \E p \in Procs : TkGenerate(p)
  \/ \E p \in Procs, outcome \in Outcomes : GwModelCall(p, outcome)
  \/ \E p \in Procs : TkGatewayFailed(p)
  \/ \E p \in Procs, content \in Contents : TkParse(p, content)
  \/ \E p \in Procs : TkDeactivate(p)
  \/ \E p \in Procs, ok \in BOOLEAN : TkCreate(p, ok)
  \/ \E p \in Procs : TkNext(p)
  \/ \E p \in Procs : RpFinish(p)

SpecTick == InitManual /\ [][NextTick]_vars

(* The run of the daily tick has ended with an error *)
TickAborted(p) ==
  rp[p].op = "tick" /\ rp[p].pc = "done" /\ rp[p].result.kind = "raise"

(* C30: in the daily tick a gateway failure (all models failed) ends the    *)
(* run at its industry.  The step that takes the failure ends the run with  *)
(* the error and leaves the store as it is; the run then holds the store    *)
(* as it was when the iteration of that industry began (none of its records *)
(* deactivated, none created), no record was created for that industry or   *)
(* a later one of the list, the records created for the earlier industries  *)
(* are all active, and the ended run takes no further step but its return.  *)
C30_TickGatewayFailureAborts ==
  /\ [][\A p \in Procs :
          (rp[p].op = "tick" /\ rp[p].pc = "tGateway"
             /\ gw[p].status = "failed" /\ rp'[p] # rp[p]) =>
            /\ rp'[p].pc = "done"
            /\ rp'[p].result = Raised("AllModelsFailed")
            /\ rp'[p].indIdx = rp[p].indIdx
            /\ db' = db]_vars
  /\ [](\A p \in Procs :
          TickAborted(p) =>
            /\ rp[p].result = Raised("AllModelsFailed")
            /\ ~rp[p].deactivated /\ rp[p].created = 0
            /\ db = rp[p].dbAtStart
            /\ \A j \in rp[p].indIdx .. Len(rp[p].industries) :
                 RowsOfCycle(db, rp[p].cycleBase + j) = {}
            /\ \A j \in 1 .. rp[p].indIdx - 1 :
                 \A r \in RowsOfCycle(db, rp[p].cycleBase + j) : r.isActive)
  /\ [][\A p \in Procs :
          TickAborted(p) => (rp'[p] \in {rp[p], RpIdle} /\ db' = db)]_vars

(* The run committed the refresh of the first industry and ended at the     *)
(* second, whose record of before the run is still active.                  *)
C30_Witness ==
  \E p \in Procs :
    /\ TickAborted(p)
    /\ Len(rp[p].industries) = 2 /\ rp[p].indIdx = 2
    /\ RowsOfCycle(db, rp[p].cycleBase + 1) # {}
    /\ \A r \in ActiveRows(db, rp[p].industries[1]) :
         r.cycle = rp[p].cycleBase + 1
    /\ \E r \in ActiveRows(db, rp[p].industries[2]) : r.cycle = 0

----------------------------------------------------------------------------
(* The weekly tick alone, over a table that holds the rows of the known     *)
(* industries.                                                              *)
NextWeekly ==
  \/ Tick
  \/ \E p \in Procs : WkCall(p)
  \/ \E p \in Procs : WkGenerate(p)
  \/ \E p \in Procs, outcome \in Outcomes : GwModelCall(p, outcome)
  \/ \E p \in Procs : WkGatewayFailed(p)
  \/ \E p \in Procs, content \in Contents : WkParse(p, content)
  \/ \E p \in Procs, ok \in BOOLEAN : WkUpdate(p, ok)
  \/ \E p \in Procs : WkNext(p)
  \/ \E p \in Procs : RpFinish(p)

SpecWeekly == InitManual /\ [][NextWeekly]_vars

----------------------------------------------------------------------------
(* getIndustryInsights alone, called a day after the nextUpdate of the one  *)
(* row of the table has passed.                                             *)
InitAged ==
  /\ db = <<>>
  /\ now = (NextUpdateDays + 1) * DayMs
  /\ nCalls = 0
  /\ callers = {1, 2}
  /\ rp = [p \in Procs |-> RpIdle]
  /\ gw = [p \in Procs |-> GwIdle]
  /\ letters = <<>>
  /\ userRows = UserTable
  /\ hook = HookInit
  /\ insights = <<InsightRow("finance", 0, "generated")>>

NextAged ==
  \/ \E p \in Procs, u \in ClerkIds, authed \in BOOLEAN : GiCall(p, u, authed)
  \/ \E p \in Procs : GiLookup(p)
  \/ \E p \in Procs : GiGenerate(p)
  \/ \E p \in Procs, outcome \in Outcomes : GwModelCall(p, outcome)
  \/ \E p \in Procs, content \in Contents : GiParse(p, content)
  \/ \E p \in Procs : GiGatewayFailed(p)
  \/ \E p \in Procs, ok \in BOOLEAN : GiCreate(p, ok)
  \/ \E p \in Procs : RpFinish(p)

SpecAged == InitAged /\ [][NextAged]_vars

(* The staleness rule of the jobs, applied to the row of an industry with   *)
(* a TTL of 7 days.                                                         *)
InsightStale(rows, ind, t) ==
  \/ ~HasInsight(rows, ind)
  \/ t - InsightOf(rows, ind).lastUpdated > NextUpdateMs

(* C32: getIndustryInsights regenerates the insight of the user's industry  *)
(* when there is none or when the existing one is more than 7 days old, and *)
(* returns the existing one otherwise.  The code tests only whether a row   *)
(* exists: a row of any age is returned as it is.                           *)
C32_InsightRegeneratedWhenStale ==
  [][\A p \in Procs :
       (rp[p].op = "insights" /\ rp[p].pc = "iLookup" /\ rp[p].user \in Users
          /\ rp'[p] # rp[p]) =>
         IF InsightStale(insights, UserIndustry[rp[p].user], now)
         THEN rp'[p].pc = "iGenerate"
         ELSE rp'[p].pc = "done" /\ rp'[p].result.kind = "return"]_vars

----------------------------------------------------------------------------
(* generateCoverLetter *)

(* A row of the coverLetter table; the content is the text that a model     *)
(* generated (named by the model) or the fixed template.                    *)
LetterRow(id, u, content) ==
  [id |-> id, userId |-> u, content |-> content, status |-> "completed"]

Generated(m) == [kind |-> "generated", model |-> m]
Template == [kind |-> "template", model |-> 0]

(* const { userId } = await auth(); if (!userId) throw new Error("Unauthorized") *)
ClCall(p, u, authed) ==
  /\ p \in callers
  /\ rp[p].pc = "idle"
  /\ nCalls < MaxCalls
  /\ nCalls' = nCalls + 1
  /\ rp' = [rp EXCEPT ![p] =
       IF authed
       THEN [RpIdle EXCEPT !.pc = "cLookup", !.op = "letter", !.user = u]
       ELSE [RpIdle EXCEPT !.pc = "done", !.op = "letter",
                           !.result = Raised("Unauthorized")]]
  /\ UNCHANGED <<db, now, callers, gw, insights, letters, userRows, hook>>

(* db.user.findUnique: if (!user) throw new Error("User not found") *)
ClLookup(p) ==
  /\ rp[p].pc = "cLookup"
  /\ rp' = [rp EXCEPT ![p] =
       IF rp[p].user \notin Users
       THEN [@ EXCEPT !.pc = "done", !.result = Raised("UserNotFound")]
       ELSE [@ EXCEPT !.pc = "cGenerate"]]
  /\ UNCHANGED <<db, now, nCalls, callers, gw, insights, letters, userRows, hook>>

(* try { const content = await generateWithModelFallback(prompt) *)
ClGenerate(p) ==
  /\ rp[p].pc = "cGenerate"
  /\ rp' = [rp EXCEPT ![p] = [@ EXCEPT !.pc = "cGateway", !.gwCalled = TRUE]]
  /\ gw' = [gw EXCEPT ![p] = GwStarted("coverLetter")]
  /\ UNCHANGED <<db, now, nCalls, callers, insights, letters, userRows, hook>>

(* The gateway returned a text: the create of the try block stores it and   *)
(* the row is returned; a create that throws goes to the catch block.       *)
ClCreate(p, ok) ==
  /\ rp[p].pc = "cGateway"
  /\ gw[p].status = "returned"
  /\ LET row == LetterRow(Len(letters) + 1, rp[p].user, Generated(gw[p].text))
     IN /\ letters' = IF ok THEN Append(letters, row) ELSE letters
        /\ rp' = [rp EXCEPT ![p] =
              IF ok
              THEN [@ EXCEPT !.pc = "done", !.genOutcome = "generated",
                             !.created = 1, !.result = Returned(<<row>>)]
              ELSE [@ EXCEPT !.pc = "cFallback", !.genOutcome = "generated",
                             !.lastError = "PersistenceError"]]
  /\ gw' = [gw EXCEPT ![p] = GwIdle]
  /\ UNCHANGED <<db, now, nCalls, callers, insights, userRows, hook>>

(* A cover letter that gives up when every model has failed *)
ClGatewayFailedRaising(p) ==
  /\ rp[p].pc = "cGateway"
  /\ gw[p].status = "failed"
  /\ rp' = [rp EXCEPT ![p] = [@ EXCEPT !.pc = "done",
               !.genOutcome = "allModelsFailed",
               !.result = Raised("AllModelsFailed")]]
  /\ gw' = [gw EXCEPT ![p] = GwIdle]
  /\ UNCHANGED <<db, now, nCalls, callers, insights, letters, userRows, hook>>

(* The gateway threw: the catch block takes over *)
ClGatewayFailed(p) ==
  /\ rp[p].pc = "cGateway"
  /\ gw[p].status = "failed"
  /\ rp' = [rp EXCEPT ![p] = [@ EXCEPT !.pc = "cFallback",
               !.genOutcome = "allModelsFailed",
               !.lastError = "AllModelsFailed"]]
  /\ gw' = [gw EXCEPT ![p] = GwIdle]
  /\ UNCHANGED <<db, now, nCalls, callers, insights, letters, userRows, hook>>

(* The catch block: the create of the template letter; if it throws, the    *)
(* error goes to the caller.                                                *)
ClFallbackCreate(p, ok) ==
  /\ rp[p].pc = "cFallback"
  /\ LET row == LetterRow(Len(letters) + 1, rp[p].user, Template)
     IN /\ letters' = IF ok THEN Append(letters, row) ELSE letters
        /\ rp' = [rp EXCEPT ![p] =
              IF ok
              THEN [@ EXCEPT !.pc = "done", !.created = 1,
                             !.result = Returned(<<row>>)]
              ELSE [@ EXCEPT !.pc = "done",
                             !.result = Raised("PersistenceError")]]
  /\ UNCHANGED <<db, now, nCalls, callers, gw, insights, userRows, hook>>

NextLetter ==
  \/ \E p \in Procs, u \in ClerkIds, authed \in BOOLEAN : ClCall(p, u, authed)
  \/ \E p \in Procs : ClLookup(p)
  \/ \E p \in Procs : ClGenerate(p)
  \/ \E p \in Procs, outcome \in Outcomes : GwModelCall(p, outcome)
  \/ \E p \in Procs, ok \in BOOLEAN : ClCreate(p, ok)
  \/ \E p \in Procs : ClGatewayFailed(p)
  \/ \E p \in Procs, ok \in BOOLEAN : ClFallbackCreate(p, ok)
  \/ \E p \in Procs : RpFinish(p)

SpecLetter == InitInsight /\ [][NextLetter]_vars

(* The call of generateCoverLetter of p has passed the two guards *)
LetterRunning(p) ==
  rp[p].op = "letter" /\ rp[p].pc \in {"cGenerate", "cGateway", "cFallback"}

(* C33: for a signed-in user with a user row, generateCoverLetter ends for  *)
(* every outcome of the gateway with a create of one row of status          *)
(* completed, which it returns: when the gateway returned a text the row    *)
(* holds that text, when every model failed it holds the template; no other *)
(* step adds a row, so a call that returns has created exactly one.  The    *)
(* call raises only when the store rejects the create of the template row.  *)
C33_CoverLetterAlwaysPersisted ==
  /\ [][\A p \in Procs :
          /\ (LetterRunning(p) /\ gw[p].status = "returned" /\ rp'[p] # rp[p]
                /\ letters' # letters) =>
               /\ letters' = Append(letters, LetterRow(Len(letters) + 1, rp[p].user,
                                                       Generated(gw[p].firstOk)))
               /\ rp'[p].pc = "done"
               /\ rp'[p].result = Returned(<<letters'[Len(letters')]>>)
          /\ (LetterRunning(p) /\ gw[p].status = "failed" /\ rp'[p] # rp[p]) =>
               /\ rp'[p].pc = "cFallback" /\ letters' = letters
          /\ (LetterRunning(p) /\ rp[p].pc = "cFallback"
                /\ rp[p].genOutcome = "allModelsFailed" /\ rp'[p] # rp[p]
                /\ letters' # letters) =>
               /\ letters' = Append(letters, LetterRow(Len(letters) + 1, rp[p].user,
                                                       Template))
               /\ rp'[p].pc = "done"
               /\ rp'[p].result = Returned(<<letters'[Len(letters')]>>)]_vars
  /\ [][letters' # letters =>
          \E p \in Procs :
            /\ LetterRunning(p) /\ rp'[p].pc = "done"
            /\ rp'[p].result.kind = "return"
            /\ Len(letters') = Len(letters) + 1]_vars
  /\ [](\A p \in Procs :
          (rp[p].op = "letter" /\ Done(p) /\ rp[p].gwCalled) =>
            \/ /\ rp[p].result.kind = "return"
               /\ \E i \in DOMAIN letters :
                    /\ rp[p].result.rows = <<letters[i]>>
                    /\ letters[i].status = "completed"
                    /\ letters[i].userId = rp[p].user
            \/ rp[p].result = Raised("PersistenceError"))

(* One call has returned a row with a generated text and another a row with *)
(* the template, after each of the four models had failed; both rows are in *)
(* the table.                                                               *)
C33_Witness ==
  /\ Len(letters) = 2
  /\ \E p, q \in Procs :
       /\ rp[p].op = "letter" /\ Done(p) /\ rp[p].result.kind = "return"
       /\ rp[p].result.rows[1].content.kind = "generated"
       /\ rp[q].op = "letter" /\ Done(q) /\ rp[q].result.kind = "return"
       /\ rp[q].genOutcome = "allModelsFailed"
       /\ rp[q].result.rows[1].content = Template

----------------------------------------------------------------------------
(* improveWithAI *)

(* A text: what it says, and whether white space surrounds it *)
Text(body, padded) == [body |-> body, padded |-> padded]

(* String.prototype.trim *)
Trim(t) == [t EXCEPT !.padded = FALSE]

(* The texts a caller passes as `current`, and those a model answers *)
CurrentTexts == {Text("current", padded) : padded \in BOOLEAN}
ModelTexts == {Text(body, padded) : body \in {"improved", ""}, padded \in BOOLEAN}

(* const { userId } = await auth(); if (!userId) throw new Error("Unauthorized") *)
RiCall(p, u, authed, current) ==
  /\ p \in callers
  /\ rp[p].pc = "idle"
  /\ nCalls < MaxCalls
  /\ nCalls' = nCalls + 1
  /\ rp' = [rp EXCEPT ![p] =
       IF authed
       THEN [RpIdle EXCEPT !.pc = "rLookup", !.op = "improve", !.user = u,
                           !.current = current]
       ELSE [RpIdle EXCEPT !.pc = "done", !.op = "improve",
                           !.current = current,
                           !.result = Raised("Unauthorized")]]
  /\ UNCHANGED <<db, now, callers, gw, insights, letters, userRows, hook>>

(* db.user.findUnique: if (!user) throw new Error("User not found") *)
RiLookup(p) ==
  /\ rp[p].pc = "rLookup"
  /\ rp' = [rp EXCEPT ![p] =
       IF rp[p].user \notin Users
       THEN [@ EXCEPT !.pc = "done", !.result = Raised("UserNotFound")]
       ELSE [@ EXCEPT !.pc = "rGenerate"]]
  /\ UNCHANGED <<db, now, nCalls, callers, gw, insights, letters, userRows, hook>>

(* for (const modelName of modelsToTry): the loop of improveWithAI starts *)
RiGenerate(p) ==
  /\ rp[p].pc = "rGenerate"
  /\ rp' = [rp EXCEPT ![p] = [@ EXCEPT !.pc = "rGateway", !.gwCalled = TRUE]]
  /\ gw' = [gw EXCEPT ![p] = GwStarted("resume")]
  /\ UNCHANGED <<db, now, nCalls, callers, insights, letters, userRows, hook>>

(* return response.text().trim(): the answer of the model that succeeded *)
RiReturn(p, text) ==
  /\ rp[p].pc = "rGateway"
  /\ gw[p].status = "returned"
  /\ rp' = [rp EXCEPT ![p] = [@ EXCEPT !.pc = "done",
               !.genOutcome = "generated",
               !.result = Returned(<<[model |-> gw[p].text, text |-> Trim(text)]>>)]]
  /\ gw' = [gw EXCEPT ![p] = GwIdle]
  /\ UNCHANGED <<db, now, nCalls, callers, insights, letters, userRows, hook>>

(* A loop that trims the text it hands back *)
RiAllFailedTrimming(p) ==
  /\ rp[p].pc = "rGateway"
  /\ gw[p].status = "failed"
  /\ rp' = [rp EXCEPT ![p] = [@ EXCEPT !.pc = "done",
               !.genOutcome = "allModelsFailed",
               !.result = Returned(<<[model |-> 0, text |-> Trim(rp[p].current)]>>)]]
  /\ gw' = [gw EXCEPT ![p] = GwIdle]
  /\ UNCHANGED <<db, now, nCalls, callers, insights, letters, userRows, hook>>

(* The loop ended without a return: `return current` *)
RiAllFailed(p) ==
  /\ rp[p].pc = "rGateway"
  /\ gw[p].status = "failed"
  /\ rp' = [rp EXCEPT ![p] = [@ EXCEPT !.pc = "done",
               !.genOutcome = "allModelsFailed",
               !.result = Returned(<<[model |-> 0, text |-> rp[p].current]>>)]]
  /\ gw' = [gw EXCEPT ![p] = GwIdle]
  /\ UNCHANGED <<db, now, nCalls, callers, insights, letters, userRows, hook>>

NextImprove ==
  \/ \E p \in Procs, u \in ClerkIds, authed \in BOOLEAN, current \in CurrentTexts :
       RiCall(p, u, authed, current)
  \/ \E p \in Procs : RiLookup(p)
  \/ \E p \in Procs : RiGenerate(p)
  \/ \E p \in Procs, outcome \in Outcomes : GwModelCall(p, outcome)
  \/ \E p \in Procs, text \in ModelTexts : RiReturn(p, text)
  \/ \E p \in Procs : RiAllFailed(p)
  \/ \E p \in Procs : RpFinish(p)

SpecImprove == InitInsight /\ [][NextImprove]_vars

(* C34: improveWithAI never raises because of a failure of generation.  It  *)
(* returns the (trimmed) answer of the first model that succeeds, the       *)
(* models before it having failed, and when all four models have failed it  *)
(* returns the caller's current text as it was passed; once the loop over   *)
(* the models has started the call ends only by returning.                  *)
C34_ImproveNeverRaises ==
  /\ [][\A p \in Procs :
          (rp[p].op = "improve" /\ rp[p].pc = "rGateway" /\ rp'[p] # rp[p]) =>
            /\ rp'[p].pc = "done"
            /\ rp'[p].result.kind = "return"
            /\ IF gw[p].status = "returned"
               THEN /\ rp'[p].result.rows[1].model = gw[p].firstOk
                    /\ gw[p].firstOk = Len(gw[p].calls)
                    /\ rp'[p].result.rows[1].text \in {Trim(t) : t \in ModelTexts}
               ELSE /\ Len(gw[p].calls) = NumModels
                    /\ gw[p].firstOk = 0
                    /\ rp'[p].result.rows[1].text = rp[p].current]_vars
  /\ [](\A p \in Procs :
          (rp[p].op = "improve" /\ Done(p) /\ rp[p].gwCalled) =>
            rp[p].result.kind = "return")

(* All four models have failed and the call has returned the text it was    *)
(* given, white space included.                                             *)
C34_Witness ==
  \E p \in Procs :
    /\ rp[p].op = "improve" /\ Done(p)
    /\ rp[p].genOutcome = "allModelsFailed"
    /\ rp[p].current.padded
    /\ rp[p].result = Returned(<<[model |-> 0, text |-> rp[p].current]>>)

----------------------------------------------------------------------------
(* The useFetch hook: one mounted instance, whose fn is invoked up to       *)
(* MaxInvocations times.  An invocation is in flight from its call of cb    *)
(* until cb's promise settles; what runs before and after the await runs    *)
(* to completion without interleaving.                                      *)

(* What cb resolves with, and what it rejects with *)
CbResults == {"r1", "r2"}
CbErrors == {"e1"}

InFlight(h) == {i \in DOMAIN h.calls : h.calls[i].status = "flight"}

(* fn(...args): setLoading(true); setError(null); cb is called.  The        *)
(* invocation remembers the data of the moment and whether it ran alone.    *)
HkInvoke ==
  /\ Len(hook.calls) < MaxInvocations
  /\ hook' = [hook EXCEPT
       !.loading = "true", !.error = "null",
       !.calls = Append([i \in DOMAIN @ |->
                           IF @[i].status = "flight"
                           THEN [@[i] EXCEPT !.overlapped = TRUE] ELSE @[i]],
                        [status |-> "flight", value |-> "none",
                         dataBefore |-> hook.data,
                         overlapped |-> InFlight(hook) # {}])]
  /\ UNCHANGED <<db, now, nCalls, callers, rp, gw, insights, letters, userRows>>

(* cb resolved: setData(response); setError(null); finally setLoading(false) *)
HkResolve(i, response) ==
  /\ i \in InFlight(hook)
  /\ hook' = [hook EXCEPT
       !.data = response, !.error = "null", !.loading = "false",
       !.calls[i].status = "ok", !.calls[i].value = response]
  /\ UNCHANGED <<db, now, nCalls, callers, rp, gw, insights, letters, userRows>>

(* A hook that drops its data when cb rejects *)
HkRejectClearingData(i, err) ==
  /\ i \in InFlight(hook)
  /\ hook' = [hook EXCEPT
       !.data = "undefined", !.error = err, !.loading = "false",
       !.calls[i].status = "err", !.calls[i].value = err]
  /\ UNCHANGED <<db, now, nCalls, callers, rp, gw, insights, letters, userRows>>

(* cb rejected: setError(err); toast.error(err.message); finally            *)
(* setLoading(false)                                                        *)
HkReject(i, err) ==
  /\ i \in InFlight(hook)
  /\ hook' = [hook EXCEPT
       !.error = err, !.loading = "false",
       !.calls[i].status = "err", !.calls[i].value = err]
  /\ UNCHANGED <<db, now, nCalls, callers, rp, gw, insights, letters, userRows>>

NextHook ==
  \/ HkInvoke
  \/ \E i \in 1 .. MaxInvocations, response \in CbResults : HkResolve(i, response)
  \/ \E i \in 1 .. MaxInvocations, err \in CbErrors : HkReject(i, err)

SpecHook == Init /\ [][NextHook]_vars

(* Invocation i settles in this step *)
Settles(i) ==
  /\ i \in InFlight(hook)
  /\ hook'.calls[i].status # "flight"

(* C35: when an invocation of fn settles that ran with no other invocation  *)
(* in flight, loading is false afterwards; if cb resolved, data is its      *)
(* result and error is null; if cb rejected, error is the error raised and  *)
(* data is the value it had before the invocation.                          *)
C35_SettledAlone ==
  [][\A i \in DOMAIN hook.calls :
       (Settles(i) /\ ~hook.calls[i].overlapped) =>
         /\ hook'.loading = "false"
         /\ hook'.calls[i].status = "ok" =>
              /\ hook'.data = hook'.calls[i].value
              /\ hook'.data \in CbResults
              /\ hook'.error = "null"
         /\ hook'.calls[i].status = "err" =>
              /\ hook'.error = hook'.calls[i].value
              /\ hook'.error \in CbErrors
              /\ hook'.data = hook.calls[i].dataBefore]_vars

(* An invocation that ran alone has failed after an earlier one had         *)
(* succeeded: the data of the earlier one is kept, next to the error.       *)
C35_Witness ==
  /\ Len(hook.calls) = 2
  /\ hook.calls[1].status = "ok" /\ ~hook.calls[1].overlapped
  /\ hook.calls[2].status = "err" /\ ~hook.calls[2].overlapped
  /\ hook.data = hook.calls[1].value
  /\ hook.error = hook.calls[2].value
  /\ hook.loading = "false"

(* C36: with overlapping invocations of fn, loading is true while at least  *)
(* one invocation is in flight, and once all have settled data is the       *)
(* result of the invocation that was started last.  In the code every       *)
(* invocation that settles sets loading to false and every one that         *)
(* resolves sets data, in the order in which they settle.                   *)
C36_LoadingWhileInFlight ==
  /\ InFlight(hook) # {} => hook.loading = "true"
  /\ (hook.calls # <<>> /\ InFlight(hook) = {}
        /\ hook.calls[Len(hook.calls)].status = "ok") =>
       hook.data = hook.calls[Len(hook.calls)].value

----------------------------------------------------------------------------
(* checkUser *)

HasUserRow(rows, id) == \E i \in DOMAIN rows : rows[i].clerkUserId = id

UserRowOf(rows, id) ==
  rows[CHOOSE i \in DOMAIN rows : rows[i].clerkUserId = id]

(* What checkUser returns when it returns null *)
Null == Returned(<<>>)

(* const user = await currentUser(); if (!user) return null.  The identity  *)
(* is one of a user with a row, one without, or nobody ("none").  The calls *)
(* for one identity come one after the other: a call starts when no call    *)
(* for its identity is running.                                             *)
UcCall(p, id) ==
  /\ p \in callers
  /\ rp[p].pc = "idle"
  /\ \A q \in Procs : rp[q].pc \in {"uFind", "uCreate"} => rp[q].user # id
  /\ nCalls < MaxCalls
  /\ nCalls' = nCalls + 1
  /\ rp' = [rp EXCEPT ![p] =
       IF id = "none"
       THEN [RpIdle EXCEPT !.pc = "done", !.op = "checkUser", !.result = Null]
       ELSE [RpIdle EXCEPT !.pc = "uFind", !.op = "checkUser", !.user = id]]
  /\ UNCHANGED <<db, now, callers, gw, insights, letters, userRows, hook>>

(* A lookup that goes on to create whether or not it found a row *)
UcAfterFindAlwaysCreating(r, rows, ok) ==
  IF ~ok
  THEN [r EXCEPT !.pc = "done", !.lastError = "PersistenceError",
                 !.result = Null]
  ELSE [r EXCEPT !.pc = "uCreate"]

(* db.user.findUnique({where: {clerkUserId: user.id}}): a row that exists   *)
(* is returned; without one the create follows; if the lookup throws, the   *)
(* catch logs and returns null.                                             *)
UcAfterFind(r, rows, ok) ==
  IF ~ok
  THEN [r EXCEPT !.pc = "done", !.lastError = "PersistenceError",
                 !.result = Null]
  ELSE IF HasUserRow(rows, r.user)
  THEN [r EXCEPT !.pc = "done", !.result = Returned(<<UserRowOf(rows, r.user)>>)]
  ELSE [r EXCEPT !.pc = "uCreate"]

UcFind(p, ok) ==
  /\ rp[p].pc = "uFind"
  /\ rp' = [rp EXCEPT ![p] = UcAfterFind(@, userRows, ok)]
  /\ UNCHANGED <<db, now, nCalls, callers, gw, insights, letters, userRows, hook>>

(* db.user.create({data: {clerkUserId: user.id, ...}}): the new row is      *)
(* returned; if the create throws, the catch logs and returns null.         *)
UcCreate(p, ok) ==
  /\ rp[p].pc = "uCreate"
  /\ userRows' = IF ok THEN Append(userRows, UserRow(rp[p].user)) ELSE userRows
  /\ rp' = [rp EXCEPT ![p] =
       IF ok
       THEN [@ EXCEPT !.pc = "done", !.created = 1,
                      !.result = Returned(<<UserRow(rp[p].user)>>)]
       ELSE [@ EXCEPT !.pc = "done", !.lastError = "PersistenceError",
                      !.result = Null]]
  /\ UNCHANGED <<db, now, nCalls, callers, gw, insights, letters, hook>>

NextCheckUser ==
  \/ \E p \in Procs, id \in ClerkIds \cup {"none"} : UcCall(p, id)
  \/ \E p \in Procs, ok \in BOOLEAN : UcFind(p, ok)
  \/ \E p \in Procs, ok \in BOOLEAN : UcCreate(p, ok)
  \/ \E p \in Procs : RpFinish(p)

SpecCheckUser == InitInsight /\ [][NextCheckUser]_vars

====
